---- MODULE Spec2Model ----
(***************************************************************************)
(* A model of the EDAM concept core: the ontology loader with its on-disk  *)
(* cache (edam_mcp/ontology/loader.py) and the concept matcher             *)
(* (edam_mcp/ontology/matcher.py).                                         *)
(*                                                                         *)
(* Representation.  A Python str is a sequence of one-character strings.   *)
(* An Optional value is a sequence of length 0 (None) or 1.  A URI is a    *)
(* sequence of tokens, the first of which is its namespace.  An ordered    *)
(* dict is a sequence of records with pairwise distinct keys, in insertion *)
(* order.  A confidence is an integer number of fiftieths (ONE is 1.0).    *)
(***************************************************************************)
EXTENDS Integers, Sequences, FiniteSets, TLC

VARIABLES
    loaderGlobals,  \* names bound in the namespace of module loader.py
    loader,         \* the OntologyLoader instance: url, graph, concepts, concept_types
    cache,          \* the files of ./cache: concepts.pkl, concept_types.pkl, cache.timestamp
    web,            \* the revision of the document each ontology URL serves
    stInstalled,    \* whether sentence_transformers can be imported
    matcher,        \* the ConceptMatcher instance: embedding_model, concept_embeddings
    last,           \* the last call made and its outcome
    used,           \* the calls of load_ontology and the cache faults so far, and
                    \* whether a load of the current loader has returned False
    walk,           \* the call of get_concept_hierarchy in progress, if any
    loading         \* the call of load_ontology in progress, if any

vars == <<loaderGlobals, loader, cache, web, stInstalled, matcher, last, used, walk, loading>>

(***************************************************************************)
(* Strings                                                                 *)
(***************************************************************************)

\* The ASCII letters and digits.
LowerLetters ==
    <<"a", "b", "c", "d", "e", "f", "g", "h", "i", "j", "k", "l", "m",
      "n", "o", "p", "q", "r", "s", "t", "u", "v", "w", "x", "y", "z">>
UpperLetters ==
    <<"A", "B", "C", "D", "E", "F", "G", "H", "I", "J", "K", "L", "M",
      "N", "O", "P", "Q", "R", "S", "T", "U", "V", "W", "X", "Y", "Z">>
Digits == {"0", "1", "2", "3", "4", "5", "6", "7", "8", "9"}
Letters == {LowerLetters[i] : i \in DOMAIN LowerLetters}
               \cup {UpperLetters[i] : i \in DOMAIN UpperLetters}

\* The lower-case letter of every upper-case letter, and the reverse.
ToLower ==
    [c \in {UpperLetters[i] : i \in DOMAIN UpperLetters} |->
        LowerLetters[CHOOSE i \in DOMAIN UpperLetters : UpperLetters[i] = c]]
ToUpper ==
    [c \in {LowerLetters[i] : i \in DOMAIN LowerLetters} |->
        UpperLetters[CHOOSE i \in DOMAIN LowerLetters : LowerLetters[i] = c]]

\* str.lower() on one character.
LowerChar(c) == IF c \in DOMAIN ToLower THEN ToLower[c] ELSE c

\* str.upper() on one character.
UpperChar(c) == IF c \in DOMAIN ToUpper THEN ToUpper[c] ELSE c

\* str.lower()
Lower(s) == [i \in DOMAIN s |-> LowerChar(s[i])]

\* The characters \w matches.
WordChars == Letters \cup Digits \cup {"_"}
SpaceChars == {" ", "\t"}

\* re.sub(r'[^\w\s\-_]', ' ', text): every character that is neither a word
\* character, whitespace, hyphen nor underscore becomes one space.
StripPunct(s) ==
    [i \in DOMAIN s |->
        IF s[i] \in WordChars \cup SpaceChars \cup {"-"} THEN s[i] ELSE " "]

\* re.sub(r'\s+', ' ', text): every maximal run of whitespace becomes one space.
RECURSIVE CollapseSpaces(_)
CollapseSpaces(s) ==
    IF s = <<>> THEN <<>>
    ELSE IF Head(s) \in SpaceChars
         THEN IF Len(s) > 1 /\ s[2] \in SpaceChars
              THEN CollapseSpaces(Tail(s))
              ELSE <<" ">> \o CollapseSpaces(Tail(s))
         ELSE <<Head(s)>> \o CollapseSpaces(Tail(s))

\* str.strip()
RECURSIVE LStrip(_)
LStrip(s) ==
    IF s # <<>> /\ Head(s) \in SpaceChars THEN LStrip(Tail(s)) ELSE s

RECURSIVE RStrip(_)
RStrip(s) ==
    IF s # <<>> /\ s[Len(s)] \in SpaceChars
    THEN RStrip(SubSeq(s, 1, Len(s) - 1))
    ELSE s

Strip(s) == RStrip(LStrip(s))

\* A variant of preprocess_text that normalizes whitespace before it removes
\* punctuation.
PreprocessTextCollapseFirst(text) ==
    IF text = <<>> THEN <<>>
    ELSE Strip(StripPunct(CollapseSpaces(Lower(text))))

\* preprocess_text
PreprocessText(text) ==
    IF text = <<>> THEN <<>>
    ELSE Strip(CollapseSpaces(StripPunct(Lower(text))))

\* " ".join(parts)
RECURSIVE JoinSpace(_)
JoinSpace(parts) ==
    IF parts = <<>> THEN <<>>
    ELSE IF Len(parts) = 1 THEN parts[1]
    ELSE parts[1] \o <<" ">> \o JoinSpace(Tail(parts))

\* str.split(): the maximal runs of non-whitespace characters, in order.
RECURSIVE SplitFrom(_, _, _)
SplitFrom(s, word, words) ==
    IF s = <<>> THEN (IF word = <<>> THEN words ELSE Append(words, word))
    ELSE IF Head(s) \in SpaceChars
         THEN SplitFrom(Tail(s), <<>>, IF word = <<>> THEN words ELSE Append(words, word))
         ELSE SplitFrom(Tail(s), Append(word, Head(s)), words)

Split(s) == SplitFrom(s, <<>>, <<>>)

\* str.title(): a letter that follows a letter is lowercased, any other
\* letter is uppercased.
Title(s) ==
    [i \in DOMAIN s |->
        IF i > 1 /\ s[i - 1] \in Letters THEN LowerChar(s[i]) ELSE UpperChar(s[i])]

\* sub in s
Contains(s, sub) ==
    \E k \in 0..(Len(s) - Len(sub)) : \A i \in DOMAIN sub : s[k + i] = sub[i]

(***************************************************************************)
(* Sequence helpers                                                        *)
(***************************************************************************)

Range(s) == {s[i] : i \in DOMAIN s}

\* A variant of Prefix: the list with no limit applied.
PrefixWhole(s, n) == s

\* s[:n] for n >= 0
Prefix(s, n) == SubSeq(s, 1, IF n < Len(s) THEN n ELSE Len(s))

(***************************************************************************)
(* Ontology documents: what Graph.parse(url) yields.  A document lists its *)
(* owl:Class nodes and its rdfs:subClassOf triples in the order the graph  *)
(* iterates them.                                                          *)
(***************************************************************************)

\* EDAM = Namespace("http://edamontology.org/"); str(uri).startswith(str(EDAM))
InEDAM(uri) == Head(uri) = "edam"

Node(uri, labels, skosDef, oboDef, altLabels, exactSyns) ==
    [uri |-> uri, labels |-> labels, skosDef |-> skosDef, oboDef |-> oboDef,
     altLabels |-> altLabels, exactSyns |-> exactSyns]

Op1 == <<"edam", "operation", "1">>
Op2 == <<"edam", "operation", "2">>
Data3 == <<"edam", "data", "3">>
Topic4 == <<"edam", "topic", "4">>
Foreign9 == <<"other", "topic", "9">>
DigitStr == <<"0", "1", "2", "3", "4", "5", "6", "7", "8", "9">>
Fmt(i) == <<"edam", "format", DigitStr[i + 1]>>

\* Revision 1 of the document at URL "u1": Op2 is a subclass of Op1 and of the
\* unlabelled class Data3; Op1 is a subclass of a class of another namespace.
DocA ==
    [nodes |-> <<
        Node(Op1, << <<"A", "b">> >>, <<>>, <<>>, << <<"a", "B">>, <<"d">> >>, <<>>),
        Node(Foreign9, << <<"a", "b">> >>, <<>>, <<>>, <<>>, <<>>),
        Node(Op2, << <<"c">> >>, << <<"d", "!", " ", "F">> >>, <<>>, <<>>, << <<"A", "B">> >>),
        Node(Data3, <<>>, << <<"d">> >>, <<>>, <<>>, <<>>),
        Node(Topic4, << <<"a", "-", "b">> >>, << <<>> >>, << <<"g">> >>, <<>>, <<>>) >>,
     sub |-> << <<Op2, Op1>>, <<Op2, Data3>>, <<Op1, Foreign9>>, <<Topic4, Op1>> >>]

\* Revision 2 of the document at URL "u1": Op1 is gone, Op2 has no parent left
\* and Topic4 is relabelled.
DocB ==
    [nodes |-> <<
        Node(Topic4, << <<"c">> >>, <<>>, <<>>, <<>>, <<>>),
        Node(Op2, << <<"c">> >>, <<>>, <<>>, <<>>, <<>>) >>,
     sub |-> <<>>]

\* The document at URL "u2": a chain of ChainLen + 1 formats, each a subclass
\* of the one before.
ChainLen == 6

\* The labels of the formats of the chain, in order.
ChainLabels == <<"f", "g", "b", "d", "f", "g", "a", "f", "g", "d">>

DocChain ==
    [nodes |-> [i \in 1..(ChainLen + 1) |->
                  Node(Fmt(i - 1), << <<ChainLabels[i]>> >>, <<>>, <<>>, <<>>, <<>>)],
     sub |-> [i \in 1..ChainLen |-> <<Fmt(i), Fmt(i - 1)>>]]

URLs == {"u1", "u2"}

\* The document a URL serves at a revision.
Served(url, rev) ==
    IF url = "u2" THEN DocChain
    ELSE IF rev = 1 THEN DocA ELSE DocB

(***************************************************************************)
(* The ordered dict self.concepts: a sequence of concept records keyed by  *)
(* their uri field.                                                        *)
(***************************************************************************)

HasKey(d, uri) == \E i \in DOMAIN d : d[i].uri = uri

\* d[rec.uri] = rec: an existing key keeps its place, a new key goes last.
DictSet(d, rec) ==
    IF HasKey(d, rec.uri)
    THEN [i \in DOMAIN d |-> IF d[i].uri = rec.uri THEN rec ELSE d[i]]
    ELSE Append(d, rec)

\* OntologyLoader.get_concept: self.concepts.get(uri), None when absent.
GetConcept(d, uri) == SelectSeq(d, LAMBDA c : c.uri = uri)

(***************************************************************************)
(* OntologyLoader: extraction                                              *)
(***************************************************************************)

\* _get_literal_value: the first object of (subject, predicate), or None.
GetLiteralValue(lits) == IF lits = <<>> THEN <<>> ELSE <<lits[1]>>

\* Python truthiness of an Optional[str]: None and "" are falsy.
Truthy(opt) == opt # <<>> /\ opt[1] # <<>>

\* _determine_concept_type: the first of the keywords that occurs in the
\* lowercased URI (the tokens of a URI are lowercase already).
DetermineConceptType(uri) ==
    LET has(k) == \E i \in DOMAIN uri : uri[i] = k
    IN  IF has("operation") THEN "Operation"
        ELSE IF has("data") THEN "Data"
        ELSE IF has("format") THEN "Format"
        ELSE IF has("topic") THEN "Topic"
        ELSE IF has("identifier") THEN "Identifier"
        ELSE "Unknown"

\* _get_parent_concepts: the objects of (uri, rdfs:subClassOf, ?) inside EDAM.
GetParentConcepts(doc, uri) ==
    LET hits == SelectSeq(doc.sub, LAMBDA t : t[1] = uri /\ InEDAM(t[2]))
    IN  [i \in DOMAIN hits |-> hits[i][2]]

\* _get_child_concepts: the subjects of (?, rdfs:subClassOf, uri) inside EDAM.
GetChildConcepts(doc, uri) ==
    LET hits == SelectSeq(doc.sub, LAMBDA t : t[2] = uri /\ InEDAM(t[1]))
    IN  [i \in DOMAIN hits |-> hits[i][1]]

\* _extract_concept_data: None (<<>>) for a node without a label.
ExtractConceptData(doc, n) ==
    LET label == GetLiteralValue(n.labels)
        skos == GetLiteralValue(n.skosDef)
        definition == IF Truthy(skos) THEN skos ELSE GetLiteralValue(n.oboDef)
    IN  IF ~Truthy(label) THEN <<>>
        ELSE << [uri |-> n.uri,
                 label |-> label[1],
                 definition |-> definition,
                 synonyms |-> n.altLabels \o n.exactSyns,
                 type |-> DetermineConceptType(n.uri),
                 parents |-> GetParentConcepts(doc, n.uri),
                 children |-> GetChildConcepts(doc, n.uri)] >>

\* The loop of _extract_concepts from node i on: every labelled class node of
\* the EDAM namespace is stored into the dict it is given, and its type added.
RECURSIVE ExtractFrom(_, _, _, _)
ExtractFrom(doc, i, concepts, types) ==
    IF i > Len(doc.nodes) THEN [concepts |-> concepts, types |-> types]
    ELSE LET n == doc.nodes[i]
             data == ExtractConceptData(doc, n)
         IN  IF ~InEDAM(n.uri) \/ data = <<>>
             THEN ExtractFrom(doc, i + 1, concepts, types)
             ELSE ExtractFrom(doc, i + 1, DictSet(concepts, data[1]),
                              types \cup {data[1].type})

\* _extract_concepts: runs on self.concepts and self.concept_types as they are.
ExtractConcepts(ld, doc) == ExtractFrom(doc, 1, ld.concepts, ld.types)

(***************************************************************************)
(* OntologyLoader: the cache files and load_ontology                       *)
(***************************************************************************)

\* Whether search_concepts takes concept c for the lowercased query.
SearchHit(c, queryLower) ==
    \/ Contains(Lower(c.label), queryLower)
    \/ IF Truthy(c.definition) THEN Contains(Lower(c.definition[1]), queryLower)
       ELSE FALSE
    \/ \E i \in DOMAIN c.synonyms : Contains(Lower(c.synonyms[i]), queryLower)

\* OntologyLoader.search_concepts
SearchConcepts(d, query, maxResults) ==
    Prefix(SelectSeq(d, LAMBDA c : SearchHit(c, Lower(query))), maxResults)

\* The names the module binds before class OntologyLoader: its imports, logger
\* and the two namespaces.  os, time and pickle are not among them.
LoaderModuleNames ==
    {"logging", "RDF", "Graph", "Namespace", "URIRef", "OWL", "RDFS", "SKOS",
     "settings", "logger", "EDAM", "OBOINOWL"}

StdlibNames == {"os", "time", "pickle"}

\* A file of ./cache: absent, unreadable by pickle.load, or holding data.
FileAbsent(empty) == [st |-> "absent", data |-> empty]
FileCorrupt(empty) == [st |-> "corrupt", data |-> empty]
FileHolding(data) == [st |-> "ok", data |-> data]

NoCache ==
    [concepts |-> FileAbsent(<<>>), types |-> FileAbsent({}), ts |-> "absent"]

\* OntologyLoader.__init__
NewLoader(url) ==
    [url |-> url, graph |-> "none", concepts |-> <<>>, types |-> {}]

\* _cache_paths: os.makedirs and os.path.join raise NameError unless os is bound.
CachePathsRaises(names) == "os" \notin names

\* _is_cache_fresh: "yes", "no", or "raise" (a NameError).  The timestamp file
\* is "fresh" while time.time() - mtime < cache_ttl, and "stale" after that.
IsCacheFresh(names, ch) ==
    IF CachePathsRaises(names) THEN "raise"
    ELSE IF ch.ts = "absent" THEN "no"
    ELSE IF "time" \notin names THEN "raise"
    ELSE IF ch.ts = "fresh" THEN "yes"
    ELSE "no"

\* pickle.load on an opened file raises when pickle is unbound, or when the
\* file does not hold a pickle; open raises when the file is absent.
ReadRaises(names, file) ==
    file.st = "absent" \/ "pickle" \notin names \/ file.st = "corrupt"

\* _load_cache: self.concepts is assigned before concept_types.pkl is opened.
LoadCache(names, ld, ch) ==
    IF CachePathsRaises(names) \/ ReadRaises(names, ch.concepts)
    THEN [ok |-> FALSE, loader |-> ld]
    ELSE LET ld1 == [ld EXCEPT !.concepts = ch.concepts.data]
         IN  IF ReadRaises(names, ch.types)
             THEN [ok |-> FALSE, loader |-> ld1]
             ELSE [ok |-> TRUE,
                   loader |-> [ld1 EXCEPT !.types = ch.types.data]]

\* _save_cache: three files written in turn; failAt = k makes the k-th open
\* raise OSError (0: none does).  open(path, "wb") leaves an empty file behind
\* when the pickle.dump after it raises; the timestamp file is fresh as soon
\* as it is opened for writing, since only its mtime is ever read.
SaveCache(names, ld, ch, failAt) ==
    IF CachePathsRaises(names) \/ failAt = 1 THEN [ok |-> FALSE, cache |-> ch]
    ELSE IF "pickle" \notin names
    THEN [ok |-> FALSE, cache |-> [ch EXCEPT !.concepts = FileCorrupt(<<>>)]]
    ELSE LET c1 == [ch EXCEPT !.concepts = FileHolding(ld.concepts)]
             c2 == [c1 EXCEPT !.types = FileHolding(ld.types)]
             c3 == [c2 EXCEPT !.ts = "fresh"]
         IN  IF failAt = 2 THEN [ok |-> FALSE, cache |-> c1]
             ELSE IF failAt = 3 THEN [ok |-> FALSE, cache |-> c2]
             ELSE [ok |-> "time" \in names, cache |-> c3]

\* load_ontology: doc is the document the URL serves, fetch says whether
\* Graph.parse gets and parses it ("ok") or raises, failAt is SaveCache's.
\* Every exception is caught and turns into the return value False.
\* via: "cache" when _load_cache ran, "parse" when Graph.parse ran.
LoadOntology(names, ld, ch, doc, fetch, failAt) ==
    LET fresh == IsCacheFresh(names, ch)
    IN  IF fresh = "raise"
        THEN [ret |-> FALSE, loader |-> ld, cache |-> ch, via |-> "none"]
        ELSE IF fresh = "yes"
        THEN LET r == LoadCache(names, ld, ch)
             IN  [ret |-> r.ok, loader |-> r.loader, cache |-> ch, via |-> "cache"]
        ELSE IF "Graph" \notin names
        THEN [ret |-> FALSE, loader |-> ld, cache |-> ch, via |-> "none"]
        ELSE LET ld0 == [ld EXCEPT !.graph = "empty"]
             IN  IF fetch # "ok"
                 THEN [ret |-> FALSE, loader |-> ld0, cache |-> ch, via |-> "parse"]
                 ELSE LET ex == ExtractConcepts(ld0, doc)
                          ld1 == [ld0 EXCEPT !.graph = "parsed",
                                             !.concepts = ex.concepts,
                                             !.types = ex.types]
                          sv == SaveCache(names, ld1, ch, failAt)
                      IN  [ret |-> sv.ok, loader |-> ld1, cache |-> sv.cache,
                           via |-> "parse"]

(***************************************************************************)
(* ConceptMatch and the embedding provider                                 *)
(***************************************************************************)

\* The confidence 1.0, in fiftieths (ConceptMatch.confidence: ge=0.0, le=1.0).
ONE == 50

\* ConceptMatch(...) of a concept: pydantic raises ValidationError unless
\* 0.0 <= confidence <= 1.0.
ConceptMatchRaises(conf) == conf < 0 \/ conf > ONE

ConceptMatch(c, conf) ==
    [uri |-> c.uri, label |-> c.label, conf |-> conf, type |-> c.type,
     definition |-> c.definition, synonyms |-> c.synonyms]

\* The vectors the embedding model produces here; each has an integer norm.
Vectors == << <<1, 0>>, <<0, 1>>, <<3, 4>>, <<4, 3>>, <<0, 0>>, <<-1, 0>> >>

CharCode(c) ==
    CASE c = "a" -> 1 [] c = "b" -> 2 [] c = "c" -> 3 [] c = "d" -> 4
      [] c = "f" -> 5 [] c = "g" -> 6 [] c = " " -> 7 [] c = "-" -> 8
      [] OTHER -> 9

RECURSIVE CodeSum(_)
CodeSum(t) == IF t = <<>> THEN 0 ELSE CharCode(Head(t)) + CodeSum(Tail(t))

\* SentenceTransformer.encode(text): a fixed function from texts to vectors.
Encode(t) == Vectors[(CodeSum(t) % Len(Vectors)) + 1]

Dot(a, b) == a[1] * b[1] + a[2] * b[2]

\* np.linalg.norm
Norm(a) == CHOOSE r \in 0..5 : r * r = Dot(a, a)

\* _cosine_similarity: 0.0 when either norm is zero.
CosineSimilarity(a, b) ==
    IF Norm(a) = 0 \/ Norm(b) = 0 THEN 0
    ELSE (Dot(a, b) * ONE) \div (Norm(a) * Norm(b))

\* A variant of SortDesc: the list left in the order it has.
SortDescOff(s) == s

\* list.sort(key=confidence, reverse=True): stable, so equal keys keep
\* their order.
RECURSIVE InsertDesc(_, _)
InsertDesc(sorted, x) ==
    IF sorted = <<>> THEN <<x>>
    ELSE IF Head(sorted).conf >= x.conf
         THEN <<Head(sorted)>> \o InsertDesc(Tail(sorted), x)
         ELSE <<x>> \o sorted

RECURSIVE SortDesc(_)
SortDesc(s) ==
    IF s = <<>> THEN <<>>
    ELSE InsertDesc(SortDesc(SubSeq(s, 1, Len(s) - 1)), s[Len(s)])

(***************************************************************************)
(* ConceptMatcher                                                          *)
(***************************************************************************)

\* ConceptMatcher.__init__
NewMatcher == [exists |-> TRUE, model |-> "none", embeddings |-> <<>>]

NoMatcher == [exists |-> FALSE, model |-> "none", embeddings |-> <<>>]

\* The text _build_embeddings embeds for a concept.
ConceptText(c) ==
    PreprocessText(JoinSpace(
        <<c.label>>
        \o (IF Truthy(c.definition) THEN <<c.definition[1]>> ELSE <<>>)
        \o c.synonyms))

RECURSIVE EmbedFrom(_, _, _)
EmbedFrom(concepts, i, embeddings) ==
    IF i > Len(concepts) THEN embeddings
    ELSE EmbedFrom(concepts, i + 1,
                   DictSet(embeddings, [uri |-> concepts[i].uri,
                                        vec |-> Encode(ConceptText(concepts[i]))]))

\* _build_embeddings: returns at once when sentence_transformers cannot be
\* imported, leaving embedding_model None.
BuildEmbeddings(m, concepts, installed) ==
    IF ~installed THEN m
    ELSE [m EXCEPT !.model = "loaded",
                   !.embeddings = EmbedFrom(concepts, 1, m.embeddings)]

\* _calculate_similarities
CalculateSimilarities(m, vec) ==
    SortDesc([i \in DOMAIN m.embeddings |->
                [uri |-> m.embeddings[i].uri,
                 conf |-> CosineSimilarity(vec, m.embeddings[i].vec)]])

\* The loop of match_concepts over the similarities from i on.
RECURSIVE MatchesFrom(_, _, _, _, _)
MatchesFrom(concepts, sims, i, minConf, matches) ==
    IF i > Len(sims) THEN [exc |-> "", out |-> matches]
    ELSE LET c == GetConcept(concepts, sims[i].uri)
         IN  IF sims[i].conf >= minConf /\ c # <<>>
             THEN IF ConceptMatchRaises(sims[i].conf)
                  THEN [exc |-> "ValidationError", out |-> <<>>]
                  ELSE MatchesFrom(concepts, sims, i + 1, minConf,
                                   Append(matches, ConceptMatch(c[1], sims[i].conf)))
             ELSE MatchesFrom(concepts, sims, i + 1, minConf, matches)

\* The text match_concepts embeds: context is an Optional[str].
QueryText(description, context) ==
    IF Truthy(context)
    THEN PreprocessText(description) \o <<" ">> \o PreprocessText(context[1])
    ELSE PreprocessText(description)

\* A variant of NeedsBuild: the embeddings are built by every call.
NeedsBuildAlways(m) == TRUE

\* match_concepts: if not self.concept_embeddings
NeedsBuild(m) == m.embeddings = <<>>

\* match_concepts.  encoded: the number of concepts _build_embeddings
\* computed an embedding for during the call.
MatchConcepts(m, concepts, description, context, maxResults, minConf, installed) ==
    LET m1 == IF NeedsBuild(m)
              THEN BuildEmbeddings(m, concepts, installed) ELSE m
        encoded == IF NeedsBuild(m) /\ installed THEN Len(concepts) ELSE 0
        text == QueryText(description, context)
    IN  IF m1.model = "none"
        THEN [exc |-> "AttributeError", out |-> <<>>, matcher |-> m1,
              encoded |-> encoded]
        ELSE LET r == MatchesFrom(concepts, CalculateSimilarities(m1, Encode(text)),
                                  1, minConf, <<>>)
             IN  [exc |-> r.exc,
                  out |-> Prefix(SortDesc(r.out), maxResults),
                  matcher |-> m1,
                  encoded |-> encoded]

\* A variant of ExactHit: the comparison with the concept side not lowercased.
ExactHitCaseSensitive(c, descriptionLower) ==
    \/ descriptionLower = c.label
    \/ \E i \in DOMAIN c.synonyms : descriptionLower = c.synonyms[i]

\* Whether find_exact_matches takes concept c for the lowercased description.
ExactHit(c, descriptionLower) ==
    \/ descriptionLower = Lower(c.label)
    \/ \E i \in DOMAIN c.synonyms : descriptionLower = Lower(c.synonyms[i])

\* find_exact_matches
FindExactMatches(concepts, description) ==
    LET hits == SelectSeq(concepts, LAMBDA c : ExactHit(c, Lower(description)))
    IN  [i \in DOMAIN hits |-> ConceptMatch(hits[i], ONE)]

\* The confidence get_concept_neighbors gives distance d: 1.0 - d * 0.2.
NeighborConfidence(d) == ONE - d * 10

\* The while loop of get_concept_neighbors.  An entry of queue is <<uri, d>>.
RECURSIVE NeighborsLoop(_, _, _, _, _)
NeighborsLoop(concepts, queue, visited, neighbors, maxDistance) ==
    IF queue = <<>> THEN [exc |-> "", out |-> neighbors]
    ELSE LET cur == Head(queue)[1]
             d == Head(queue)[2]
             rest == Tail(queue)
             c == GetConcept(concepts, cur)
         IN  IF cur \in visited \/ d > maxDistance
             THEN NeighborsLoop(concepts, rest, visited, neighbors, maxDistance)
             ELSE IF c # <<>> /\ d > 0 /\ ConceptMatchRaises(NeighborConfidence(d))
             THEN [exc |-> "ValidationError", out |-> <<>>]
             ELSE LET found == IF c # <<>> /\ d > 0
                               THEN Append(neighbors,
                                           ConceptMatch(c[1], NeighborConfidence(d)))
                               ELSE neighbors
                  IN  IF d >= maxDistance
                      THEN NeighborsLoop(concepts, rest, visited \cup {cur},
                                         found, maxDistance)
                      ELSE IF c = <<>>
                      THEN [exc |-> "TypeError", out |-> <<>>]
                      ELSE NeighborsLoop(
                               concepts,
                               rest
                               \o [i \in DOMAIN c[1].parents |-> <<c[1].parents[i], d + 1>>]
                               \o [i \in DOMAIN c[1].children |-> <<c[1].children[i], d + 1>>],
                               visited \cup {cur}, found, maxDistance)

\* get_concept_neighbors
GetConceptNeighbors(concepts, uri, maxDistance) ==
    NeighborsLoop(concepts, << <<uri, 0>> >>, {}, <<>>, maxDistance)

(***************************************************************************)
(* ConceptSuggester (edam_mcp/ontology/suggester.py).  A concept type and  *)
(* every generated text is a Python str.  A suggested URI is the namespace *)
(* token followed by the characters of its local part.                     *)
(***************************************************************************)

\* _infer_concept_type: operation_keywords
OperationKeywords ==
    <<<<"a", "n", "a", "l", "y", "z", "e">>,
      <<"p", "r", "o", "c", "e", "s", "s">>,
      <<"f", "i", "l", "t", "e", "r">>,
      <<"t", "r", "a", "n", "s", "f", "o", "r", "m">>,
      <<"c", "o", "n", "v", "e", "r", "t">>,
      <<"c", "a", "l", "c", "u", "l", "a", "t", "e">>,
      <<"c", "o", "m", "p", "u", "t", "e">>,
      <<"g", "e", "n", "e", "r", "a", "t", "e">>,
      <<"c", "r", "e", "a", "t", "e">>,
      <<"e", "x", "t", "r", "a", "c", "t">>,
      <<"m", "e", "r", "g", "e">>,
      <<"s", "p", "l", "i", "t">>,
      <<"a", "l", "i", "g", "n">>,
      <<"a", "s", "s", "e", "m", "b", "l", "e">>,
      <<"a", "n", "n", "o", "t", "a", "t", "e">>,
      <<"p", "r", "e", "d", "i", "c", "t">>,
      <<"c", "l", "a", "s", "s", "i", "f", "y">>,
      <<"c", "l", "u", "s", "t", "e", "r">>>>

\* _infer_concept_type: data_keywords
DataKeywords ==
    <<<<"s", "e", "q", "u", "e", "n", "c", "e">>,
      <<"a", "l", "i", "g", "n", "m", "e", "n", "t">>,
      <<"m", "a", "t", "r", "i", "x">>,
      <<"t", "a", "b", "l", "e">>,
      <<"l", "i", "s", "t">>,
      <<"t", "r", "e", "e">>,
      <<"g", "r", "a", "p", "h">>,
      <<"n", "e", "t", "w", "o", "r", "k">>,
      <<"p", "r", "o", "f", "i", "l", "e">>,
      <<"s", "i", "g", "n", "a", "t", "u", "r", "e">>,
      <<"p", "a", "t", "t", "e", "r", "n">>,
      <<"m", "o", "t", "i", "f">>,
      <<"d", "a", "t", "a", "s", "e", "t">>,
      <<"c", "o", "l", "l", "e", "c", "t", "i", "o", "n">>,
      <<"s", "e", "t">>,
      <<"f", "i", "l", "e">>,
      <<"r", "e", "c", "o", "r", "d">>>>

\* _infer_concept_type: format_keywords
FormatKeywords ==
    <<<<"f", "o", "r", "m", "a", "t">>,
      <<"f", "i", "l", "e">>,
      <<"e", "x", "t", "e", "n", "s", "i", "o", "n">>,
      <<"e", "n", "c", "o", "d", "i", "n", "g">>,
      <<"s", "t", "r", "u", "c", "t", "u", "r", "e">>,
      <<"f", "a", "s", "t", "a">>,
      <<"f", "a", "s", "t", "q">>,
      <<"s", "a", "m">>,
      <<"b", "a", "m">>,
      <<"v", "c", "f">>,
      <<"b", "e", "d">>,
      <<"g", "f", "f">>,
      <<"g", "t", "f">>,
      <<"c", "s", "v">>,
      <<"t", "s", "v">>,
      <<"j", "s", "o", "n">>,
      <<"x", "m", "l">>,
      <<"y", "a", "m", "l">>>>

\* _infer_concept_type: topic_keywords
TopicKeywords ==
    <<<<"b", "i", "o", "l", "o", "g", "y">>,
      <<"g", "e", "n", "o", "m", "i", "c", "s">>,
      <<"p", "r", "o", "t", "e", "o", "m", "i", "c", "s">>,
      <<"m", "e", "t", "a", "b", "o", "l", "o", "m", "i", "c", "s">>,
      <<"t", "r", "a", "n", "s", "c", "r", "i", "p", "t", "o", "m", "i", "c", "s">>,
      <<"p", "h", "y", "l", "o", "g", "e", "n", "e", "t", "i", "c", "s">>,
      <<"e", "v", "o", "l", "u", "t", "i", "o", "n">>,
      <<"d", "i", "s", "e", "a", "s", "e">>,
      <<"c", "a", "n", "c", "e", "r">>,
      <<"d", "r", "u", "g">>,
      <<"p", "r", "o", "t", "e", "i", "n">>,
      <<"g", "e", "n", "e">>,
      <<"d", "n", "a">>,
      <<"r", "n", "a">>,
      <<"s", "e", "q", "u", "e", "n", "c", "e">>,
      <<"a", "l", "i", "g", "n", "m", "e", "n", "t">>,
      <<"a", "n", "n", "o", "t", "a", "t", "i", "o", "n">>>>

OperationType == <<"O", "p", "e", "r", "a", "t", "i", "o", "n">>
DataType == <<"D", "a", "t", "a">>
FormatType == <<"F", "o", "r", "m", "a", "t">>
TopicType == <<"T", "o", "p", "i", "c">>
IdentifierType == <<"I", "d", "e", "n", "t", "i", "f", "i", "e", "r">>

\* sum(1 for keyword in keywords if keyword in description_lower)
KeywordScore(keywords, descriptionLower) ==
    Cardinality({i \in DOMAIN keywords : Contains(descriptionLower, keywords[i])})

\* The dict scores of _infer_concept_type, in insertion order.
TypeScores(description) ==
    LET d == Lower(description)
    IN  << [type |-> OperationType, score |-> KeywordScore(OperationKeywords, d)],
           [type |-> DataType, score |-> KeywordScore(DataKeywords, d)],
           [type |-> FormatType, score |-> KeywordScore(FormatKeywords, d)],
           [type |-> TopicType, score |-> KeywordScore(TopicKeywords, d)] >>

\* A variant of MaxByScore: the last key whose score no other exceeds.
MaxByScoreLast(scores) ==
    LET k == CHOOSE i \in DOMAIN scores :
                 /\ \A j \in DOMAIN scores : scores[j].score <= scores[i].score
                 /\ \A j \in (i + 1)..Len(scores) : scores[j].score < scores[i].score
    IN  scores[k].type

\* max(scores, key=scores.get): the first key whose score no other exceeds.
MaxByScore(scores) ==
    LET k == CHOOSE i \in DOMAIN scores :
                 /\ \A j \in DOMAIN scores : scores[j].score <= scores[i].score
                 /\ \A j \in 1..(i - 1) : scores[j].score < scores[i].score
    IN  scores[k].type

\* _infer_concept_type
InferConceptType(description) == MaxByScore(TypeScores(description))

\* _generate_label_variations: common_words
CommonWords ==
    <<<<"t", "h", "e">>,
      <<"a">>,
      <<"a", "n">>,
      <<"a", "n", "d">>,
      <<"o", "r">>,
      <<"f", "o", "r">>,
      <<"w", "i", "t", "h">>,
      <<"i", "n">>,
      <<"o", "n">>,
      <<"a", "t">>,
      <<"t", "o">>,
      <<"o", "f">>>>

\* _generate_label_variations, before list(set(variations)): the variations
\* as a set.  text is the preprocessed description.
LabelVariations(text) ==
    LET words == Split(text)
        filtered == SelectSeq(words, LAMBDA w : Lower(w) \notin Range(CommonWords))
    IN  {Title(text)}
        \cup (IF Len(words) > 1 THEN {Title(JoinSpace(Prefix(words, 3)))} ELSE {})
        \cup (IF filtered # <<>> THEN {Title(JoinSpace(Prefix(filtered, 4)))} ELSE {})

\* list(set(xs)): the members of the set in the order the set iterates them,
\* which depends on the hashes of the strings; any order can come out.
Orderings(S) ==
    {q \in [1..Cardinality(S) -> S] : \A x \in S : \E i \in DOMAIN q : q[i] = x}

AlnumChars == Letters \cup Digits

\* A variant of GenerateURI: the local part without the type prefix.
GenerateURIWithoutType(label, conceptType) ==
    <<"edam">> \o Lower(SelectSeq(label, LAMBDA c : c \in AlnumChars))

\* _generate_uri
GenerateURI(label, conceptType) ==
    LET kept == SelectSeq(label, LAMBDA c : c \in AlnumChars \cup SpaceChars)
        under == [i \in DOMAIN CollapseSpaces(kept) |->
                    IF CollapseSpaces(kept)[i] \in SpaceChars THEN "_"
                    ELSE CollapseSpaces(kept)[i]]
    IN  <<"edam">> \o Lower(conceptType) \o <<"_">> \o Lower(under)

\* _generate_definition
GenerateDefinition(description) ==
    LET d == Strip(description)
    IN  IF d = <<>> THEN d
        ELSE LET cap == <<UpperChar(d[1])>> \o Tail(d)
             IN  IF cap[Len(cap)] = "." THEN cap ELSE Append(cap, ".")

\* min(0.1 * overlap, 0.2), in fiftieths
OverlapBonus(overlap) == IF 5 * overlap < 10 THEN 5 * overlap ELSE 10

\* min(confidence, 1.0)
CapAtOne(conf) == IF conf < ONE THEN conf ELSE ONE

\* len(set(a.lower().split()) & set(b.lower().split()))
WordOverlap(a, b) ==
    Cardinality(Range(Split(Lower(a))) \cap Range(Split(Lower(b))))

\* A variant of _calculate_label_confidence whose clarity factor is also given
\* to the empty label.
CalculateLabelConfidenceEmptyClear(label, description) ==
    LET words == Len(Split(label))
        overlap == WordOverlap(description, label)
    IN  CapAtOne(25
                 + (IF 3 <= words /\ words <= 6 THEN 10 ELSE 0)
                 + (IF Len(label) > 10 THEN 5 ELSE 0)
                 + (IF \A i \in DOMAIN label : label[i] \in AlnumChars \cup SpaceChars
                    THEN 5 ELSE 0)
                 + (IF overlap > 0 THEN OverlapBonus(overlap) ELSE 0))

\* _calculate_label_confidence
CalculateLabelConfidence(label, description) ==
    LET words == Len(Split(label))
        overlap == WordOverlap(description, label)
    IN  CapAtOne(25
                 + (IF 3 <= words /\ words <= 6 THEN 10 ELSE 0)
                 + (IF Len(label) > 10 THEN 5 ELSE 0)
                 + (IF label # <<>> /\ \A i \in DOMAIN label :
                          label[i] \in AlnumChars \cup SpaceChars
                    THEN 5 ELSE 0)
                 + (IF overlap > 0 THEN OverlapBonus(overlap) ELSE 0))

\* _calculate_hierarchical_confidence
CalculateHierarchicalConfidence(concepts, description, parent) ==
    LET p == GetConcept(concepts, parent)
    IN  IF p = <<>> THEN 30
        ELSE LET overlap == IF Truthy(p[1].definition)
                            THEN WordOverlap(p[1].definition[1], description)
                            ELSE 0
             IN  CapAtOne(30
                          + (IF Contains(Lower(description), Lower(p[1].label))
                             THEN 10 ELSE 0)
                          + (IF overlap > 0 THEN OverlapBonus(overlap) ELSE 0))

\* _generate_contextual_label
GenerateContextualLabel(concepts, description, parent) ==
    LET p == GetConcept(concepts, parent)
    IN  IF p # <<>>
        THEN Title(JoinSpace(Prefix(Split(description), 2))) \o <<" ">> \o p[1].label
        ELSE Title(description)

\* SuggestedConcept(...): confidence must lie in [0, 1].
SuggestedConceptRaises(conf) == conf < 0 \/ conf > ONE

SuggestedConcept(label, uri, conceptType, definition, parent, conf) ==
    [label |-> label, uri |-> uri, type |-> conceptType,
     definition |-> definition, parent |-> parent, conf |-> conf]

\* _generate_label_based_suggestions; variations is the list that
\* _generate_label_variations returned.
LabelBasedSuggestions(description, conceptType, maxSuggestions, variations) ==
    LET labels == Prefix(variations, maxSuggestions)
    IN  [i \in DOMAIN labels |->
            SuggestedConcept(labels[i], GenerateURI(labels[i], conceptType),
                             conceptType, GenerateDefinition(description), <<>>,
                             CalculateLabelConfidence(labels[i], description))]

\* _find_potential_parents, before list(set(potential_parents)): the parents
\* of the matched concepts as a set.
PotentialParents(concepts, matches) ==
    UNION {Range(GetConcept(concepts, matches[i].uri)[1].parents) :
             i \in {j \in DOMAIN matches : GetConcept(concepts, matches[j].uri) # <<>>}}

\* _generate_hierarchical_suggestions; found is the list that
\* _find_potential_parents returned, parent the Optional parent_concept.
HierarchicalSuggestions(concepts, description, conceptType, parent, maxSuggestions, found) ==
    LET potential == IF Truthy(parent) THEN <<parent[1]>> \o found ELSE found
        parents == Prefix(potential, maxSuggestions)
    IN  [i \in DOMAIN parents |->
            LET label == GenerateContextualLabel(concepts, description, parents[i])
            IN  SuggestedConcept(label, GenerateURI(label, conceptType), conceptType,
                                 GenerateDefinition(description), <<parents[i]>>,
                                 CalculateHierarchicalConfidence(concepts, description,
                                                                 parents[i]))]

\* A variant of Deduplicate: every suggestion kept.
DeduplicateOff(suggestions, seen, unique) == suggestions

\* _deduplicate_suggestions: the first suggestion of every label, in order.
RECURSIVE Deduplicate(_, _, _)
Deduplicate(suggestions, seen, unique) ==
    IF suggestions = <<>> THEN unique
    ELSE IF Head(suggestions).label \in seen
         THEN Deduplicate(Tail(suggestions), seen, unique)
         ELSE Deduplicate(Tail(suggestions), seen \cup {Head(suggestions).label},
                          Append(unique, Head(suggestions)))

\* suggest_concepts.  variations and found are the lists list(set(...)) gave
\* _generate_label_variations and _find_potential_parents.  An exception of
\* match_concepts or of the SuggestedConcept constructor leaves
\* suggest_concepts as it is raised.  generated: the suggestions built, in
\* the order they were built.
SuggestConcepts(m, concepts, description, conceptType, parent, maxSuggestions, installed, variations, found) ==
    LET type == IF conceptType = <<>> \/ conceptType[1] = <<>>
                THEN InferConceptType(description) ELSE conceptType[1]
        byLabel == LabelBasedSuggestions(description, type, maxSuggestions, variations)
        mr == MatchConcepts(m, concepts, description, <<>>, 10, 15, installed)
        byParent == HierarchicalSuggestions(concepts, description, type, parent,
                                            maxSuggestions, found)
    IN  IF \E i \in DOMAIN byLabel : SuggestedConceptRaises(byLabel[i].conf)
        THEN [exc |-> "ValidationError", out |-> <<>>, generated |-> <<>>, matcher |-> m]
        ELSE IF mr.exc # ""
        THEN [exc |-> mr.exc, out |-> <<>>, generated |-> byLabel, matcher |-> mr.matcher]
        ELSE IF \E i \in DOMAIN byParent : SuggestedConceptRaises(byParent[i].conf)
        THEN [exc |-> "ValidationError", out |-> <<>>, generated |-> byLabel,
              matcher |-> mr.matcher]
        ELSE [exc |-> "",
              out |-> Prefix(SortDesc(Deduplicate(byLabel \o byParent, {}, <<>>)),
                             maxSuggestions),
              generated |-> byLabel \o byParent,
              matcher |-> mr.matcher]

\* The matches _find_potential_parents gets from match_concepts.
ParentMatches(m, concepts, description, installed) ==
    MatchConcepts(m, concepts, description, <<>>, 10, 15, installed).out

(***************************************************************************)
(* The tools (edam_mcp/tools/mapping.py, edam_mcp/tools/suggestion.py).    *)
(* calls lists the steps a tool took, in order.                            *)
(***************************************************************************)

\* settings.edam_ontology_url: the URL OntologyLoader() loads.
SettingsOntologyURL == "u1"

\* settings.max_suggestions: its default.
SettingsMaxSuggestions == 5

\* MappingRequest(...): pydantic raises ValidationError unless the
\* description has a character, 1 <= max_results <= 20 and
\* 0.0 <= min_confidence <= 1.0.
MappingRequestRaises(description, maxResults, minConfidence) ==
    \/ Len(description) < 1
    \/ maxResults < 1 \/ maxResults > 20
    \/ minConfidence < 0 \/ minConfidence > ONE

\* SuggestionRequest(...): pydantic raises ValidationError unless the
\* description has a character and concept_type is None or one of five names.
SuggestionRequestRaises(description, conceptType) ==
    \/ Len(description) < 1
    \/ IF conceptType = <<>> THEN FALSE
       ELSE conceptType[1] \notin {OperationType, DataType, FormatType, TopicType,
                                   IdentifierType}

\* A variant of MappingResponse: the semantic matches are preferred to the
\* exact ones.
MappingResponseSemanticFirst(ld, exactMatches, mr) ==
    IF ~ld.ret
    THEN [exc |-> "RuntimeError", matches |-> <<>>, total |-> 0, exact |-> FALSE,
          cache |-> ld.cache, loader |-> ld.loader, matcher |-> NoMatcher,
          calls |-> <<"load_ontology">>]
    ELSE IF mr.exc = "" /\ mr.out # <<>>
    THEN [exc |-> "", matches |-> mr.out, total |-> Len(mr.out), exact |-> FALSE,
          cache |-> ld.cache, loader |-> ld.loader, matcher |-> mr.matcher,
          calls |-> <<"load_ontology", "match_concepts">>]
    ELSE [exc |-> "", matches |-> exactMatches, total |-> Len(exactMatches),
          exact |-> exactMatches # <<>>,
          cache |-> ld.cache, loader |-> ld.loader, matcher |-> mr.matcher,
          calls |-> <<"load_ontology", "match_concepts", "find_exact_matches">>]

\* The MappingResponse map_to_edam_concept returns, or the exception it
\* raises, given what its load (ld), find_exact_matches (exactMatches) and
\* match_concepts (mr) give.
MappingResponse(ld, exactMatches, mr) ==
    IF ~ld.ret
    THEN [exc |-> "RuntimeError", matches |-> <<>>, total |-> 0, exact |-> FALSE,
          cache |-> ld.cache, loader |-> ld.loader, matcher |-> NoMatcher,
          calls |-> <<"load_ontology">>]
    ELSE IF exactMatches # <<>>
    THEN [exc |-> "", matches |-> exactMatches, total |-> Len(exactMatches),
          exact |-> TRUE,
          cache |-> ld.cache, loader |-> ld.loader, matcher |-> NewMatcher,
          calls |-> <<"load_ontology", "find_exact_matches">>]
    ELSE [exc |-> mr.exc, matches |-> mr.out, total |-> Len(mr.out),
          exact |-> FALSE,
          cache |-> ld.cache, loader |-> ld.loader, matcher |-> mr.matcher,
          calls |-> <<"load_ontology", "find_exact_matches", "match_concepts">>]

\* map_to_edam_concept from the return of load_ontology on.
MapLoaded(ld, installed, description, context, maxResults, minConfidence) ==
    MappingResponse(ld,
                    FindExactMatches(ld.loader.concepts, description),
                    MatchConcepts(NewMatcher, ld.loader.concepts, description, context,
                                  maxResults, minConfidence, installed))

\* map_to_edam_concept: names, ch, doc, fetch, failAt and installed are what
\* the call finds around it, the rest is the request.
MapToEdamConcept(names, ch, doc, fetch, failAt, installed, description, context, maxResults, minConfidence) ==
    MapLoaded(LoadOntology(names, NewLoader(SettingsOntologyURL), ch, doc, fetch, failAt),
              installed, description, context, maxResults, minConfidence)

\* A variant of HighConfidence: 0.9.
HigherConfidence == ONE - 5

\* The confidence 0.8 at which suggest_new_concept takes a match for good.
HighConfidence == 40

\* The min_confidence 0.7 suggest_new_concept maps with.
MappingMinConfidence == 35

\* The SuggestionResponse suggest_new_concept returns, or the exception it
\* raises, given what its load (ld), map_to_edam_concept (mp) and
\* suggest_concepts (sg) give.  mapped: the matches of the mapping step.
SuggestionResponse(ld, mp, sg) ==
    IF ~ld.ret
    THEN [exc |-> "RuntimeError", suggestions |-> <<>>, total |-> 0,
          attempted |-> FALSE, reason |-> <<>>, mapped |-> <<>>,
          cache |-> ld.cache, matcher |-> NoMatcher,
          calls |-> <<"load_ontology">>]
    ELSE IF mp.exc # ""
    THEN [exc |-> mp.exc, suggestions |-> <<>>, total |-> 0,
          attempted |-> FALSE, reason |-> <<>>, mapped |-> <<>>,
          cache |-> mp.cache, matcher |-> NewMatcher,
          calls |-> <<"load_ontology", "map_to_edam_concept">>]
    ELSE IF (IF mp.matches = <<>> THEN FALSE
             ELSE mp.matches[1].conf >= HighConfidence)
    THEN [exc |-> "", suggestions |-> <<>>, total |-> 0,
          attempted |-> TRUE,
          reason |-> <<"High-confidence existing matches found">>,
          mapped |-> mp.matches,
          cache |-> mp.cache, matcher |-> NewMatcher,
          calls |-> <<"load_ontology", "map_to_edam_concept">>]
    ELSE [exc |-> sg.exc, suggestions |-> sg.out, total |-> Len(sg.out),
          attempted |-> (sg.exc = ""), reason |-> <<>>, mapped |-> mp.matches,
          cache |-> mp.cache, matcher |-> sg.matcher,
          calls |-> <<"load_ontology", "map_to_edam_concept", "suggest_concepts">>]

\* suggest_new_concept from the return of load_ontology on.  The load inside
\* the nested map_to_edam_concept finds the cache the first load read or
\* wrote, fresh, so it fetches and saves nothing.
SuggestLoaded(ld, names, doc, fetch, failAt, installed, description, conceptType, parent, rationale, variations, found) ==
    SuggestionResponse(
        ld,
        MapToEdamConcept(names, ld.cache, doc, fetch, failAt, installed,
                         description, rationale, 5, MappingMinConfidence),
        SuggestConcepts(NewMatcher, ld.loader.concepts, description, conceptType,
                        parent, SettingsMaxSuggestions, installed, variations, found))

\* suggest_new_concept
SuggestNewConcept(names, ch, doc, fetch, failAt, installed, description, conceptType, parent, rationale, variations, found) ==
    SuggestLoaded(LoadOntology(names, NewLoader(SettingsOntologyURL), ch, doc, fetch, failAt),
                  names, doc, fetch, failAt, installed,
                  description, conceptType, parent, rationale, variations, found)

(***************************************************************************)
(* Inputs and bounds                                                       *)
(***************************************************************************)

\* Graph.parse(url): the document is fetched and parsed, or the fetch or the
\* parse raises.
FetchOutcomes == {"ok", "unreachable", "malformed"}

\* Which open of _save_cache raises, 0 for none.
SaveFailures == 0..3

\* Descriptions given to find_exact_matches and match_concepts.
Texts == { <<"a", "b">>, <<"A", "B">>, <<"c">>, <<"g", "!">> }

\* Contexts given to match_concepts.
Contexts == { <<>>, << <<"d">> >> }

\* max_results ranges over 1..MaxResults, max_distance over 0..MaxDistance.
MaxResults == 2
MaxDistance == 6

\* min_confidence: 0.0, 0.6 and 1.0.
Thresholds == {0, 30, ONE}

\* Start URIs given to get_concept_neighbors; Data3 is never loaded.
StartURIs == {Op1, Op2, Data3, Fmt(0), Fmt(2)}

\* Descriptions given to suggest_concepts.
SuggestTexts ==
    { <<"F", "A", "S", "T", "Q", " ", "f", "i", "l", "e", " ", "f", "o", "r", "m", "a", "t">>,
      <<"s", "e", "q", "u", "e", "n", "c", "e", " ", "a", "l", "i", "g", "n", "m", "e", "n", "t">>,
      <<"f", "a", "s", "t", "q">>,
      <<"c", " ", "d">>,
      <<"a", "l", "i", "g", "n", " ", "t", "h", "e", " ", "d", "n", "a", "!">>,
      <<"!">>,
      <<"x", "-", "y", " ", "b", " ", "c", " ", "d", " ", "e", " ", "f", " ", "g">> }

\* concept_type given to suggest_concepts: None or a type name.
SuggestTypes == { <<>>, <<IdentifierType>>, <<TopicType>> }

\* parent_concept given to suggest_concepts: None, a URI that a loaded graph
\* may hold, and one that no graph holds.
SuggestParents == { <<>>, <<Op1>>, <<Data3>> }

\* max_suggestions ranges over 1..MaxSuggestions.
MaxSuggestions == 2

\* Descriptions given to the tools.
ToolTexts ==
    { <<>>,
      <<"a", "b">>,
      <<"f", "a", "s", "t", "q">>,
      <<"c", " ", "d">>,
      <<"a", "l", "i", "g", "n", " ", "t", "h", "e", " ", "d", "n", "a", "!">> }

\* concept_type given to SuggestionRequest: None, and a name that is none of
\* the five.
ToolTypes == { <<>>, << <<"T", "o", "o", "l">> >> }

\* parent_concept given to SuggestionRequest.
ToolParents == { <<>>, <<Data3>> }

\* min_confidence given to MappingRequest: 0.6 and 1.2.
ToolThresholds == {30, 60}

\* What a tool's load meets: the fetch works or not, the files of the cache
\* can be written or not.
ToolFetchOutcomes == {"ok", "unreachable"}
ToolSaveFailures == {0, 1}

\* A run makes at most MaxLoads calls of load_ontology and sees at most
\* MaxFaults faults of the cache directory.
MaxLoads == 2
MaxFaults == 1

\* The calls of match_concepts on one matcher are counted up to MaxMatches.
MaxMatches == 2

(***************************************************************************)
(* The state machine                                                       *)
(***************************************************************************)

\* No call yet.  Every call records itself here: its name, its arguments, the
\* exception it raised ("" for none), its return value (ret for a bool, out
\* for a list of ConceptMatch).
NoCall ==
    [op |-> "none", exc |-> "", ret |-> FALSE, via |-> "none", fetch |-> "ok",
     failAt |-> 0, out |-> <<>>, text |-> <<>>, context |-> <<>>, uri |-> <<>>,
     n |-> 0, threshold |-> 0, type |-> <<>>, parent |-> <<>>, generated |-> <<>>,
     rationale |-> <<>>, caller |-> "", calls |-> <<>>, total |-> 0,
     exact |-> FALSE, attempted |-> FALSE, reason |-> <<>>, embedded |-> 0,
     mapped |-> <<>>, encoded |-> 0]

\* No call of load_ontology is in progress.  pc: the statement the call is
\* at; doc and i: the document parsed and the node the loop of
\* _extract_concepts is at; before: the collection when the call began;
\* after: the collection the call leaves when nothing interrupts it.
NoLoading == [active |-> FALSE, pc |-> "none", doc |-> <<>>, i |-> 0, failAt |-> 0,
              before |-> <<>>, after |-> <<>>]

\* No call of get_concept_hierarchy is in progress.
NoWalk == [active |-> FALSE, uri |-> <<>>, cur |-> <<>>, hierarchy |-> <<>>,
           visits |-> <<>>]

InitCommon ==
    /\ loader = NewLoader("u1")
    /\ cache = NoCache
    /\ web = 1
    /\ matcher = NoMatcher
    /\ last = NoCall
    /\ used = [loads |-> 0, faults |-> 0, failed |-> FALSE, matches |-> 0]
    /\ walk = NoWalk
    /\ loading = NoLoading

\* The program as its source stands.
Init ==
    /\ InitCommon
    /\ loaderGlobals = LoaderModuleNames
    /\ stInstalled \in BOOLEAN

\* The program with os, time and pickle bound in loader.py's namespace.
InitResolved ==
    /\ InitCommon
    /\ loaderGlobals = LoaderModuleNames \cup StdlibNames
    /\ stInstalled = TRUE

\* OntologyLoader(ontology_url=url); the matcher of the previous loader goes
\* out of use with it.
Construct(url) ==
    /\ loader' = NewLoader(url)
    /\ matcher' = NoMatcher
    /\ last' = [NoCall EXCEPT !.op = "OntologyLoader"]
    /\ used' = [used EXCEPT !.failed = FALSE, !.matches = 0]
    /\ UNCHANGED <<loaderGlobals, cache, web, stInstalled, walk, loading>>

\* loader.load_ontology()
Load(fetch, failAt) ==
    /\ used.loads < MaxLoads
    /\ LET r == LoadOntology(loaderGlobals, loader, cache,
                             Served(loader.url, web), fetch, failAt)
       IN  /\ loader' = r.loader
           /\ cache' = r.cache
           /\ last' = [NoCall EXCEPT !.op = "load_ontology", !.ret = r.ret,
                                     !.via = r.via, !.fetch = fetch,
                                     !.failAt = failAt]
           /\ used' = [used EXCEPT !.loads = @ + 1, !.failed = @ \/ ~r.ret]
    /\ UNCHANGED <<loaderGlobals, web, stInstalled, matcher, walk, loading>>

\* The publisher replaces the document at URL "u1" by its other revision.
Publish ==
    /\ web' = 3 - web
    /\ UNCHANGED <<loaderGlobals, loader, cache, stInstalled, matcher, last, used, walk, loading>>

\* cache_ttl seconds pass since the timestamp file was written.
TimePasses ==
    /\ cache' = [cache EXCEPT !.ts = IF @ = "fresh" THEN "stale" ELSE @]
    /\ UNCHANGED <<loaderGlobals, loader, web, stInstalled, matcher, last, used, walk, loading>>

\* A file of ./cache is deleted ("lost") or, if it holds a pickle, damaged
\* ("corrupt") by something outside the program.
CacheFault(f, kind) ==
    /\ used.faults < MaxFaults
    /\ kind = "corrupt" => (f # "ts" /\ cache[f].st = "ok")
    /\ cache' = IF f = "ts" THEN [cache EXCEPT !.ts = "absent"]
                ELSE [cache EXCEPT ![f].st = IF kind = "lost" THEN "absent" ELSE "corrupt",
                                   ![f].data = NoCache[f].data]
    /\ used' = [used EXCEPT !.faults = @ + 1]
    /\ UNCHANGED <<loaderGlobals, loader, web, stInstalled, matcher, last, walk, loading>>

\* ConceptMatcher(loader)
MakeMatcher ==
    /\ matcher' = NewMatcher
    /\ last' = [NoCall EXCEPT !.op = "ConceptMatcher"]
    /\ used' = [used EXCEPT !.matches = 0]
    /\ UNCHANGED <<loaderGlobals, loader, cache, web, stInstalled, walk, loading>>

\* matcher.find_exact_matches(text)
FindExact(text) ==
    /\ matcher.exists
    /\ last' = [NoCall EXCEPT !.op = "find_exact_matches", !.text = text,
                              !.out = FindExactMatches(loader.concepts, text)]
    /\ UNCHANGED <<loaderGlobals, loader, cache, web, stInstalled, matcher, used, walk, loading>>

\* matcher.match_concepts(text, context, n, threshold)
Match(text, context, n, threshold) ==
    /\ matcher.exists
    /\ LET r == MatchConcepts(matcher, loader.concepts, text, context, n,
                              threshold, stInstalled)
       IN  /\ matcher' = r.matcher
           /\ last' = [NoCall EXCEPT !.op = "match_concepts", !.text = text,
                                     !.context = context, !.n = n,
                                     !.threshold = threshold,
                                     !.exc = r.exc, !.out = r.out,
                                     !.encoded = r.encoded]
           /\ used' = [used EXCEPT !.matches = IF @ < MaxMatches THEN @ + 1 ELSE @]
    /\ UNCHANGED <<loaderGlobals, loader, cache, web, stInstalled, walk, loading>>

\* matcher.get_concept_neighbors(uri, n)
Neighbors(uri, n) ==
    /\ matcher.exists
    /\ LET r == GetConceptNeighbors(loader.concepts, uri, n)
       IN  last' = [NoCall EXCEPT !.op = "get_concept_neighbors", !.uri = uri,
                                  !.n = n, !.exc = r.exc, !.out = r.out]
    /\ UNCHANGED <<loaderGlobals, loader, cache, web, stInstalled, matcher, used, walk, loading>>

\* The loader and what happens around it.
NextLoader ==
    \/ \E url \in URLs : Construct(url)
    \/ \E fetch \in FetchOutcomes, failAt \in SaveFailures : Load(fetch, failAt)
    \/ Publish
    \/ TimePasses
    \/ \E f \in {"concepts", "types", "ts"}, kind \in {"lost", "corrupt"} :
          CacheFault(f, kind)

\* The matcher over the loader as it stands.
NextMatcher ==
    \/ MakeMatcher
    \/ \E text \in Texts : FindExact(text)
    \/ \E text \in Texts, context \in Contexts, n \in 1..MaxResults,
          threshold \in Thresholds : Match(text, context, n, threshold)
    \/ \E uri \in StartURIs, n \in 0..MaxDistance : Neighbors(uri, n)

Next == NextLoader \/ NextMatcher

\* The program as its source stands.
Spec == Init /\ [][Next]_vars

\* The loader with os, time and pickle bound.
SpecResolved == InitResolved /\ [][NextLoader]_vars

(***************************************************************************)
(* The matcher over a loaded graph: the loader starts in a state that      *)
(* load_ontology leaves it in once os, time and pickle are bound.          *)
(***************************************************************************)

ResolvedNames == LoaderModuleNames \cup StdlibNames

\* The loader after load_ontology() parsed doc with no fresh cache.
AfterLoad(ld, doc) == LoadOntology(ResolvedNames, ld, NoCache, doc, "ok", 0).loader

LoadedLoaders ==
    { NewLoader("u1"),
      AfterLoad(NewLoader("u1"), DocA),
      AfterLoad(NewLoader("u1"), DocB),
      AfterLoad(AfterLoad(NewLoader("u1"), DocA), DocB),
      AfterLoad(NewLoader("u2"), DocChain) }

InitMatcher ==
    /\ loaderGlobals = ResolvedNames
    /\ loader \in LoadedLoaders
    /\ cache = NoCache
    /\ web = 1
    /\ stInstalled \in BOOLEAN
    /\ matcher = NoMatcher
    /\ last = NoCall
    /\ used = [loads |-> 0, faults |-> 0, failed |-> FALSE, matches |-> 0]
    /\ walk = NoWalk
    /\ loading = NoLoading

SpecMatcher == InitMatcher /\ [][NextMatcher]_vars

(***************************************************************************)
(* A matcher that outlives reloads of its loader; os, time and pickle are  *)
(* bound.                                                                  *)
(***************************************************************************)

\* Another OntologyLoader of the same URL, such as the one every tool call
\* constructs, runs load_ontology() and so may rewrite the files of ./cache.
OtherLoaderLoads ==
    /\ cache' = LoadOntology(loaderGlobals, NewLoader(loader.url), cache,
                             Served(loader.url, web), "ok", 0).cache
    /\ cache' # cache
    /\ UNCHANGED <<loaderGlobals, loader, web, stInstalled, matcher, last, used, walk, loading>>

\* Descriptions given to match_concepts between reloads.
ReloadTexts == { <<"a", "b">>, <<"c">> }

NextReload ==
    \/ \E fetch \in {"ok", "unreachable"} : Load(fetch, 0)
    \/ Publish
    \/ TimePasses
    \/ OtherLoaderLoads
    \/ MakeMatcher
    \/ \E text \in ReloadTexts, n \in 1..(MaxResults + 1) : Match(text, <<>>, n, 0)

SpecReload == InitResolved /\ [][NextReload]_vars

(***************************************************************************)
(* load_ontology one statement at a time, on a loader that other threads   *)
(* read meanwhile; os, time and pickle are bound.                          *)
(***************************************************************************)

\* load_ontology returns ret.
LoadReturns(ret, via) ==
    /\ last' = [NoCall EXCEPT !.op = "load_ontology", !.ret = ret, !.via = via]
    /\ loading' = NoLoading
    /\ used' = [used EXCEPT !.loads = @ + 1, !.failed = @ \/ ~ret]

\* load_ontology up to its first assignment to the collection: the test of
\* the cache and, without a fresh cache, Graph() and Graph.parse.
LoadBegin(fetch, failAt) ==
    /\ ~loading.active
    /\ used.loads < MaxLoads
    /\ LET fresh == IsCacheFresh(loaderGlobals, cache)
           started == [NoLoading EXCEPT
                         !.active = TRUE, !.i = 1, !.failAt = failAt,
                         !.doc = Served(loader.url, web),
                         !.before = loader.concepts,
                         !.after = LoadOntology(loaderGlobals, loader, cache,
                                                Served(loader.url, web), fetch,
                                                failAt).loader.concepts]
       IN  IF fresh = "raise"
           THEN LoadReturns(FALSE, "none") /\ UNCHANGED loader
           ELSE IF fresh = "yes"
           THEN /\ loading' = [started EXCEPT !.pc = "load_cache"]
                /\ UNCHANGED <<loader, last, used>>
           ELSE IF fetch # "ok"
           THEN /\ loader' = [loader EXCEPT !.graph = "empty"]
                /\ LoadReturns(FALSE, "parse")
           ELSE /\ loader' = [loader EXCEPT !.graph = "parsed"]
                /\ loading' = [started EXCEPT !.pc = "extract"]
                /\ UNCHANGED <<last, used>>
    /\ UNCHANGED <<loaderGlobals, cache, web, stInstalled, matcher, walk>>

\* _load_cache: self.concepts = pickle.load(f)
LoadCacheConcepts ==
    /\ loading.pc = "load_cache"
    /\ IF ReadRaises(loaderGlobals, cache.concepts)
       THEN LoadReturns(FALSE, "cache") /\ UNCHANGED loader
       ELSE /\ loader' = [loader EXCEPT !.concepts = cache.concepts.data]
            /\ loading' = [loading EXCEPT !.pc = "load_cache_types"]
            /\ UNCHANGED <<last, used>>
    /\ UNCHANGED <<loaderGlobals, cache, web, stInstalled, matcher, walk>>

\* _load_cache: self.concept_types = pickle.load(f), and the return.
LoadCacheTypes ==
    /\ loading.pc = "load_cache_types"
    /\ IF ReadRaises(loaderGlobals, cache.types)
       THEN LoadReturns(FALSE, "cache") /\ UNCHANGED loader
       ELSE /\ loader' = [loader EXCEPT !.types = cache.types.data]
            /\ LoadReturns(TRUE, "cache")
    /\ UNCHANGED <<loaderGlobals, cache, web, stInstalled, matcher, walk>>

\* One iteration of the loop of _extract_concepts.
ExtractStep ==
    /\ loading.pc = "extract"
    /\ loading.i <= Len(loading.doc.nodes)
    /\ LET one == ExtractFrom([loading.doc EXCEPT !.nodes = <<loading.doc.nodes[loading.i]>>],
                              1, loader.concepts, loader.types)
       IN  loader' = [loader EXCEPT !.concepts = one.concepts, !.types = one.types]
    /\ loading' = [loading EXCEPT !.i = @ + 1]
    /\ UNCHANGED <<loaderGlobals, cache, web, stInstalled, matcher, last, used, walk>>

\* The loop is over: _save_cache, and the return.
LoadSave ==
    /\ loading.pc = "extract"
    /\ loading.i > Len(loading.doc.nodes)
    /\ LET sv == SaveCache(loaderGlobals, loader, cache, loading.failAt)
       IN  /\ cache' = sv.cache
           /\ LoadReturns(sv.ok, "parse")
    /\ UNCHANGED <<loaderGlobals, loader, web, stInstalled, matcher, walk>>

\* Another thread calls loader.get_concept(uri).
ReadConcept(uri) ==
    /\ last' = [NoCall EXCEPT !.op = "get_concept", !.uri = uri,
                              !.out = GetConcept(loader.concepts, uri)]
    /\ UNCHANGED <<loaderGlobals, loader, cache, web, stInstalled, matcher, used, walk, loading>>

\* Another thread calls loader.search_concepts(query).
ReadSearch(query) ==
    /\ last' = [NoCall EXCEPT !.op = "search_concepts", !.text = query,
                              !.out = SearchConcepts(loader.concepts, query, 10)]
    /\ UNCHANGED <<loaderGlobals, loader, cache, web, stInstalled, matcher, used, walk, loading>>

\* Another thread calls find_exact_matches(text) on a matcher of the loader.
ReadExact(text) ==
    /\ last' = [NoCall EXCEPT !.op = "find_exact_matches", !.text = text,
                              !.out = FindExactMatches(loader.concepts, text)]
    /\ UNCHANGED <<loaderGlobals, loader, cache, web, stInstalled, matcher, used, walk, loading>>

\* The document changes or the cache ages while no load is in progress.
Outside ==
    /\ ~loading.active
    /\ Publish \/ TimePasses

NextConcurrent ==
    \/ \E fetch \in FetchOutcomes, failAt \in SaveFailures : LoadBegin(fetch, failAt)
    \/ LoadCacheConcepts
    \/ LoadCacheTypes
    \/ ExtractStep
    \/ LoadSave
    \/ \E uri \in StartURIs : ReadConcept(uri)
    \/ \E query \in Texts : ReadSearch(query)
    \/ \E text \in Texts : ReadExact(text)
    \/ Outside

SpecConcurrent == InitResolved /\ [][NextConcurrent]_vars

(***************************************************************************)
(* The functions of utils, each applied to inputs drawn at the start.      *)
(***************************************************************************)

\* sum(xs)
RECURSIVE Sum(_)
Sum(xs) == IF xs = <<>> THEN 0 ELSE Head(xs) + Sum(Tail(xs))

\* calculate_weighted_similarity.  The returned float is num / den in the
\* unit of the similarities: sum(s * (w / total)) is sum(s * w) / total.
CalculateWeightedSimilarity(similarities, weights) ==
    IF similarities = <<>> \/ weights = <<>>
    THEN [exc |-> "", num |-> 0, den |-> 1]
    ELSE IF Len(similarities) # Len(weights)
    THEN [exc |-> "ValueError", num |-> 0, den |-> 1]
    ELSE IF Sum(weights) = 0
    THEN [exc |-> "", num |-> 0, den |-> 1]
    ELSE [exc |-> "",
          num |-> Sum([i \in DOMAIN weights |-> similarities[i] * weights[i]]),
          den |-> Sum(weights)]

\* The sequences over alphabet of length at most n.
SeqsUpTo(alphabet, n) == UNION {[1..k -> alphabet] : k \in 0..n}

\* The texts given to preprocess_text: letters of both cases, punctuation,
\* hyphen, underscore and two kinds of whitespace.
MaxTextLen == 4
TextAlphabet == {"a", "B", "!", "-", "_", " ", "\t"}
UtilTexts == SeqsUpTo(TextAlphabet, MaxTextLen)

\* The lists given to calculate_weighted_similarity: similarities in
\* fiftieths, weights as whole numbers.
MaxListLen == 2
UtilSimilarities == SeqsUpTo({0, 25, ONE}, MaxListLen)
UtilWeights == SeqsUpTo(0..2, MaxListLen)

\* An input on which no function has been called yet.
NoUtilCall ==
    [op |-> "none", input |-> <<>>, text |-> <<>>, out |-> <<>>, n |-> 0,
     similarities |-> <<>>, weights |-> <<>>, exc |-> "", num |-> 0, den |-> 1]

InitUtils ==
    /\ loaderGlobals = LoaderModuleNames
    /\ loader = NewLoader("u1")
    /\ cache = NoCache
    /\ web = 1
    /\ stInstalled = FALSE
    /\ matcher = NoMatcher
    /\ used = [loads |-> 0, faults |-> 0, failed |-> FALSE, matches |-> 0]
    /\ walk = NoWalk
    /\ loading = NoLoading
    /\ \/ \E text \in UtilTexts :
            last = [NoUtilCall EXCEPT !.op = "text", !.input = text]
       \/ \E similarities \in UtilSimilarities, weights \in UtilWeights :
            last = [NoUtilCall EXCEPT !.op = "lists", !.similarities = similarities,
                                      !.weights = weights]

\* preprocess_text(text)
PreprocessTextCall ==
    /\ last.op = "text"
    /\ last' = [last EXCEPT !.op = "preprocess_text", !.text = last.input,
                            !.out = PreprocessText(last.input), !.n = 1]
    /\ UNCHANGED <<loaderGlobals, loader, cache, web, stInstalled, matcher, used, walk, loading>>

\* preprocess_text(result), result being what the call before returned.
PreprocessTextAgain ==
    /\ last.op = "preprocess_text"
    /\ last.n = 1
    /\ last' = [last EXCEPT !.text = last.out, !.out = PreprocessText(last.out), !.n = 2]
    /\ UNCHANGED <<loaderGlobals, loader, cache, web, stInstalled, matcher, used, walk, loading>>

\* calculate_weighted_similarity(similarities, weights)
CalculateWeightedSimilarityCall ==
    /\ last.op = "lists"
    /\ LET r == CalculateWeightedSimilarity(last.similarities, last.weights)
       IN  last' = [last EXCEPT !.op = "calculate_weighted_similarity",
                               !.exc = r.exc, !.num = r.num, !.den = r.den]
    /\ UNCHANGED <<loaderGlobals, loader, cache, web, stInstalled, matcher, used, walk, loading>>

NextUtils ==
    \/ PreprocessTextCall
    \/ PreprocessTextAgain
    \/ CalculateWeightedSimilarityCall

SpecUtils == InitUtils /\ [][NextUtils]_vars

(***************************************************************************)
(* get_concept_hierarchy, one iteration of its while loop at a time, over  *)
(* a loaded graph.  The method has no caller in the package.               *)
(***************************************************************************)

\* A document whose subclass triples form a cycle of two classes and a
\* self-loop.
DocLoop ==
    [nodes |-> <<
        Node(Op1, << <<"a">> >>, <<>>, <<>>, <<>>, <<>>),
        Node(Op2, << <<"b">> >>, <<>>, <<>>, <<>>, <<>>),
        Node(Topic4, << <<"c">> >>, <<>>, <<>>, <<>>, <<>>) >>,
     sub |-> << <<Op1, Op2>>, <<Op2, Op1>>, <<Topic4, Topic4>> >>]

\* A document in which the only superclass of Op2 has no label, so that the
\* first parent of Op2 is never loaded.
DocOrphan ==
    [nodes |-> <<
        Node(Op2, << <<"b">> >>, <<>>, <<>>, <<>>, <<>>),
        Node(Data3, <<>>, <<>>, <<>>, <<>>, <<>>),
        Node(Topic4, << <<"c">> >>, <<>>, <<>>, <<>>, <<>>) >>,
     sub |-> << <<Topic4, Op2>>, <<Op2, Data3>> >>]

\* URIs given to get_concept_hierarchy.
HierarchyURIs == StartURIs \cup {Topic4, Fmt(ChainLen)}

\* The model follows a call for at most MaxVisits iterations of its loop.
MaxVisits == 8

\* A variant of hierarchy.insert(0, label) that appends the label.
InsertLast(hierarchy, label) == Append(hierarchy, label)

\* hierarchy.insert(0, label)
InsertFirst(hierarchy, label) == <<label>> \o hierarchy

\* loader.get_concept_hierarchy(uri): the two assignments before the loop.
HierarchyCall(uri) ==
    /\ ~walk.active
    /\ walk' = [active |-> TRUE, uri |-> uri, cur |-> <<uri>>,
                hierarchy |-> <<>>, visits |-> <<>>]
    /\ UNCHANGED <<loaderGlobals, loader, cache, web, stInstalled, matcher, last, used, loading>>

\* One iteration of the while loop that finds the current concept: its
\* label goes to the front of the list and its first parent, if it has one,
\* becomes the current URI.
HierarchyIterate ==
    /\ walk.active
    /\ walk.cur # <<>>
    /\ Len(walk.visits) < MaxVisits
    /\ LET c == GetConcept(loader.concepts, walk.cur[1])
       IN  /\ c # <<>>
           /\ walk' = [walk EXCEPT
                  !.hierarchy = InsertFirst(@, c[1].label),
                  !.visits = Append(@, walk.cur[1]),
                  !.cur = IF c[1].parents # <<>> THEN <<c[1].parents[1]>> ELSE <<>>]
    /\ UNCHANGED <<loaderGlobals, loader, cache, web, stInstalled, matcher, last, used, loading>>

\* The loop ends (current_uri is None, or names no loaded concept) and the
\* list is returned.
HierarchyReturn ==
    /\ walk.active
    /\ IF walk.cur = <<>> THEN TRUE
       ELSE GetConcept(loader.concepts, walk.cur[1]) = <<>>
    /\ last' = [NoCall EXCEPT !.op = "get_concept_hierarchy", !.uri = walk.uri,
                              !.out = walk.hierarchy, !.n = Len(walk.visits)]
    /\ walk' = NoWalk
    /\ UNCHANGED <<loaderGlobals, loader, cache, web, stInstalled, matcher, used, loading>>

NextHierarchy ==
    \/ \E uri \in HierarchyURIs : HierarchyCall(uri)
    \/ HierarchyIterate
    \/ HierarchyReturn

InitHierarchy ==
    /\ loaderGlobals = ResolvedNames
    /\ loader \in LoadedLoaders \cup {AfterLoad(NewLoader("u1"), DocLoop),
                                      AfterLoad(NewLoader("u1"), DocOrphan)}
    /\ cache = NoCache
    /\ web = 1
    /\ stInstalled = TRUE
    /\ matcher = NoMatcher
    /\ last = NoCall
    /\ used = [loads |-> 0, faults |-> 0, failed |-> FALSE, matches |-> 0]
    /\ walk = NoWalk
    /\ loading = NoLoading

SpecHierarchy == InitHierarchy /\ [][NextHierarchy]_vars

(***************************************************************************)
(* get_concept_neighbors over loaded graphs of several shapes.             *)
(***************************************************************************)

\* A document in which Data3 is a subclass of Op2 and of Topic4, both
\* subclasses of Op1: two paths of the same length lead from Op1 to Data3.
DocDiamond ==
    [nodes |-> <<
        Node(Op1, << <<"a">> >>, <<>>, <<>>, <<>>, <<>>),
        Node(Op2, << <<"b">> >>, <<>>, <<>>, <<>>, <<>>),
        Node(Topic4, << <<"c">> >>, <<>>, <<>>, <<>>, <<>>),
        Node(Data3, << <<"d">> >>, <<>>, <<>>, <<>>, <<>>) >>,
     sub |-> << <<Op2, Op1>>, <<Topic4, Op1>>, <<Data3, Op2>>, <<Data3, Topic4>> >>]

\* The loaders get_concept_neighbors is called on: the chain, the diamond, a
\* graph with cycles, and a graph with links to classes that were not loaded.
NeighborLoaders ==
    { AfterLoad(NewLoader("u2"), DocChain),
      AfterLoad(NewLoader("u1"), DocDiamond),
      AfterLoad(NewLoader("u1"), DocLoop),
      AfterLoad(NewLoader("u1"), DocA) }

\* Start URIs given to get_concept_neighbors; Foreign9 is never loaded.
NeighborURIs == StartURIs \cup {Topic4, Foreign9}

InitNeighbors ==
    /\ loaderGlobals = ResolvedNames
    /\ loader \in NeighborLoaders
    /\ cache = NoCache
    /\ web = 1
    /\ stInstalled \in BOOLEAN
    /\ matcher = NoMatcher
    /\ last = NoCall
    /\ used = [loads |-> 0, faults |-> 0, failed |-> FALSE, matches |-> 0]
    /\ walk = NoWalk
    /\ loading = NoLoading

NextNeighbors ==
    \/ MakeMatcher
    \/ \E uri \in NeighborURIs, n \in 0..MaxDistance : Neighbors(uri, n)

SpecNeighbors == InitNeighbors /\ [][NextNeighbors]_vars

(***************************************************************************)
(* The suggester over a loaded graph (or over the empty collection that    *)
(* the loader holds when no load has succeeded).  As in the package        *)
(* (tools/suggestion.py), a matcher and a suggester are constructed for    *)
(* every call of suggest_concepts.                                         *)
(***************************************************************************)

\* ConceptSuggester(loader, ConceptMatcher(loader))
MakeSuggester ==
    /\ matcher' = NewMatcher
    /\ last' = [NoCall EXCEPT !.op = "ConceptSuggester"]
    /\ UNCHANGED <<loaderGlobals, loader, cache, web, stInstalled, used, walk, loading>>

\* suggester.suggest_concepts(description, conceptType, parent, None, n)
Suggest(description, conceptType, parent, n) ==
    /\ last.op = "ConceptSuggester"
    /\ \E variations \in Orderings(LabelVariations(PreprocessText(description))),
          found \in Orderings(PotentialParents(loader.concepts,
                      ParentMatches(matcher, loader.concepts, description, stInstalled))) :
          LET r == SuggestConcepts(matcher, loader.concepts, description, conceptType,
                                   parent, n, stInstalled, variations, found)
          IN  /\ matcher' = r.matcher
              /\ last' = [NoCall EXCEPT !.op = "suggest_concepts",
                                        !.text = description, !.type = conceptType,
                                        !.parent = parent, !.n = n, !.exc = r.exc,
                                        !.out = r.out, !.generated = r.generated]
    /\ UNCHANGED <<loaderGlobals, loader, cache, web, stInstalled, used, walk, loading>>

NextSuggester ==
    \/ MakeSuggester
    \/ \E description \in SuggestTexts, conceptType \in SuggestTypes,
       parent \in SuggestParents, n \in 1..MaxSuggestions :
        Suggest(description, conceptType, parent, n)

InitSuggester ==
    /\ loaderGlobals = ResolvedNames
    /\ loader \in LoadedLoaders
    /\ cache = NoCache
    /\ web = 1
    /\ stInstalled \in BOOLEAN
    /\ matcher = NoMatcher
    /\ last = NoCall
    /\ used = [loads |-> 0, faults |-> 0, failed |-> FALSE, matches |-> 0]
    /\ walk = NoWalk
    /\ loading = NoLoading

SpecSuggester == InitSuggester /\ [][NextSuggester]_vars

(***************************************************************************)
(* The tools.  A request object is constructed, then the tool is awaited   *)
(* with it; every tool call constructs its own loader, matcher and         *)
(* suggester, which are gone when the call is over: a call leaves behind   *)
(* the cache files and what it returned or raised.  embedded: the number   *)
(* of embeddings the matcher of the call held at its end.  The namespace   *)
(* of loader.py is the one of the source or has os, time and pickle bound  *)
(* as well.                                                                *)
(***************************************************************************)

\* MappingRequest(description=..., context=..., max_results=..., min_confidence=...)
MakeMappingRequest(description, context, maxResults, minConfidence) ==
    /\ last' = [NoCall EXCEPT
                   !.op = "MappingRequest", !.text = description,
                   !.context = context, !.n = maxResults,
                   !.threshold = minConfidence,
                   !.exc = IF MappingRequestRaises(description, maxResults, minConfidence)
                           THEN "ValidationError" ELSE ""]
    /\ UNCHANGED <<loaderGlobals, loader, cache, web, stInstalled, matcher, used, walk, loading>>

\* The tool has returned or raised r.
MappingDone(r) ==
    /\ cache' = r.cache
    /\ last' = [last EXCEPT !.op = "map_to_edam_concept", !.exc = r.exc,
                            !.out = r.matches, !.total = r.total,
                            !.exact = r.exact, !.calls = r.calls,
                            !.embedded = Len(r.matcher.embeddings)]

\* await map_to_edam_concept(request, context)
MapToEdamConceptTool(fetch, failAt) ==
    /\ last.op = "MappingRequest"
    /\ last.exc = ""
    /\ MappingDone(MapToEdamConcept(loaderGlobals, cache,
                                    Served(SettingsOntologyURL, web),
                                    fetch, failAt, stInstalled,
                                    last.text, last.context, last.n, last.threshold))
    /\ UNCHANGED <<loaderGlobals, loader, web, stInstalled, matcher, used, walk, loading>>

\* SuggestionRequest(description=..., concept_type=..., parent_concept=..., rationale=...)
MakeSuggestionRequest(description, conceptType, parent, rationale) ==
    /\ last' = [NoCall EXCEPT
                   !.op = "SuggestionRequest", !.text = description,
                   !.type = conceptType, !.parent = parent,
                   !.rationale = rationale,
                   !.exc = IF SuggestionRequestRaises(description, conceptType)
                           THEN "ValidationError" ELSE ""]
    /\ UNCHANGED <<loaderGlobals, loader, cache, web, stInstalled, matcher, used, walk, loading>>

\* suggest_concepts_for_description(description, concept_type, parent_concept,
\* rationale, max_suggestions=n) up to its await: the request is constructed
\* from the first four arguments.
SuggestConceptsForDescription(description, conceptType, parent, rationale, n) ==
    /\ last' = [NoCall EXCEPT
                   !.op = "SuggestionRequest",
                   !.caller = "suggest_concepts_for_description",
                   !.text = description,
                   !.type = conceptType, !.parent = parent,
                   !.rationale = rationale, !.n = n,
                   !.exc = IF SuggestionRequestRaises(description, conceptType)
                           THEN "ValidationError" ELSE ""]
    /\ UNCHANGED <<loaderGlobals, loader, cache, web, stInstalled, matcher, used, walk, loading>>

\* The tool has returned or raised r.
SuggestionDone(r) ==
    /\ cache' = r.cache
    /\ last' = [last EXCEPT !.op = "suggest_new_concept",
                            !.exc = r.exc, !.out = r.suggestions,
                            !.total = r.total, !.attempted = r.attempted,
                            !.reason = r.reason, !.mapped = r.mapped,
                            !.calls = r.calls,
                            !.embedded = Len(r.matcher.embeddings)]

\* suggest_new_concept once its load_ontology has returned ld.
SuggestNewConceptLoaded(ld, fetch, failAt) ==
    \E variations \in Orderings(LabelVariations(PreprocessText(last.text))),
       found \in Orderings(PotentialParents(
                    ld.loader.concepts,
                    ParentMatches(NewMatcher, ld.loader.concepts, last.text,
                                  stInstalled))) :
       SuggestionDone(SuggestLoaded(ld, loaderGlobals,
                                    Served(SettingsOntologyURL, web), fetch, failAt,
                                    stInstalled, last.text, last.type, last.parent,
                                    last.rationale, variations, found))

\* await suggest_new_concept(request, context)
SuggestNewConceptTool(fetch, failAt) ==
    /\ last.op = "SuggestionRequest"
    /\ last.exc = ""
    /\ SuggestNewConceptLoaded(
           LoadOntology(loaderGlobals, NewLoader(SettingsOntologyURL), cache,
                        Served(SettingsOntologyURL, web), fetch, failAt),
           fetch, failAt)
    /\ UNCHANGED <<loaderGlobals, loader, web, stInstalled, matcher, used, walk, loading>>

NextTools ==
    \/ \E description \in ToolTexts, context \in Contexts, n \in 0..MaxResults,
          threshold \in ToolThresholds :
          MakeMappingRequest(description, context, n, threshold)
    \/ \E fetch \in ToolFetchOutcomes, failAt \in ToolSaveFailures :
          MapToEdamConceptTool(fetch, failAt)
    \/ \E description \in ToolTexts, conceptType \in ToolTypes,
          parent \in ToolParents, rationale \in Contexts :
          MakeSuggestionRequest(description, conceptType, parent, rationale)
    \/ \E description \in ToolTexts, conceptType \in ToolTypes,
          parent \in ToolParents, rationale \in Contexts,
          n \in 1..MaxSuggestions :
          SuggestConceptsForDescription(description, conceptType, parent, rationale, n)
    \/ \E fetch \in ToolFetchOutcomes, failAt \in ToolSaveFailures :
          SuggestNewConceptTool(fetch, failAt)
    \/ Publish
    \/ TimePasses

InitTools ==
    /\ InitCommon
    /\ loaderGlobals \in {LoaderModuleNames, ResolvedNames}
    /\ stInstalled \in BOOLEAN

SpecTools == InitTools /\ [][NextTools]_vars

(***************************************************************************)
(* Properties                                                              *)
(***************************************************************************)

\* A step that is a call of load_ontology.
LoadStep == used'.loads = used.loads + 1

ConceptKeys(d) == {d[i].uri : i \in DOMAIN d}

\* The class nodes of doc that lie in the EDAM namespace and have a label.
LabelledEdamNodes(doc) ==
    {doc.nodes[i].uri : i \in {j \in DOMAIN doc.nodes :
        /\ InEDAM(doc.nodes[j].uri)
        /\ doc.nodes[j].labels # <<>>
        /\ doc.nodes[j].labels[1] # <<>>}}

C3_LoadSucceedsOnGoodDocument ==
    [][(LoadStep /\ cache.ts # "fresh")
          => /\ (last'.fetch = "ok" /\ last'.failAt = 0)
                   => /\ last'.ret
                      /\ LabelledEdamNodes(Served(loader.url, web))
                            \subseteq ConceptKeys(loader'.concepts)
                      /\ loader.concepts = <<>>
                            => ConceptKeys(loader'.concepts)
                                  = LabelledEdamNodes(Served(loader.url, web))
             /\ last'.fetch # "ok" => ~last'.ret]_vars

\* C4 as claimed: when the cache cannot be used (no fresh timestamp, or a
\* pickle file missing or unreadable) and the source can be fetched, parsed
\* and cached, load_ontology() returns True.
C4_FallsBackToFreshLoad ==
    [][(/\ LoadStep
        /\ \/ cache.ts # "fresh"
           \/ cache.concepts.st # "ok"
           \/ cache.types.st # "ok"
        /\ last'.fetch = "ok"
        /\ last'.failAt = 0)
          => last'.ret]_vars

\* C9 as claimed: without sentence_transformers, match_concepts returns an
\* empty list and raises nothing.
C9_MatchDegradesToEmpty ==
    (last.op = "match_concepts" /\ ~stInstalled)
        => (last.exc = "" /\ last.out = <<>>)

\* The collection load_ontology() would leave in a newly constructed loader.
FreshResult(url, ch, doc, fetch, failAt) ==
    LoadOntology(ResolvedNames, NewLoader(url), ch, doc, fetch, failAt).loader

ParseOf(doc) == ExtractFrom(doc, 1, <<>>, {})

SameIgnoringCase(s, t) ==
    /\ Len(s) = Len(t)
    /\ \A i \in DOMAIN s : LowerChar(s[i]) = LowerChar(t[i])

\* The positions in the collection of the concepts whose label or some
\* synonym equals text up to case.
EqualPositions(concepts, text) ==
    {i \in DOMAIN concepts :
        \/ SameIgnoringCase(text, concepts[i].label)
        \/ \E k \in DOMAIN concepts[i].synonyms :
              SameIgnoringCase(text, concepts[i].synonyms[k])}

\* The k-th smallest member of a set of positions.
KthOf(S, k) == CHOOSE i \in S : Cardinality({j \in S : j < i}) = k - 1

\* C7: find_exact_matches(text) returns the concepts whose label or some
\* synonym equals text up to case, each once, in the order of the collection,
\* each with confidence 1.0 and the concept's own fields, and nothing else.
C7_ExactMatchesAreTheEqualConcepts ==
    last.op = "find_exact_matches"
        => LET S == EqualPositions(loader.concepts, last.text)
           IN  /\ last.exc = ""
               /\ Len(last.out) = Cardinality(S)
               /\ \A k \in DOMAIN last.out :
                     last.out[k] = ConceptMatch(loader.concepts[KthOf(S, k)], ONE)

\* C7 witness: a call returned two concepts, one of which is equal to the text
\* by its label and by a synonym at once, for a text with upper-case letters.
C7_Witness ==
    /\ last.op = "find_exact_matches"
    /\ Len(last.out) = 2
    /\ Lower(last.text) # last.text
    /\ \E i \in EqualPositions(loader.concepts, last.text) :
          /\ SameIgnoringCase(last.text, loader.concepts[i].label)
          /\ \E k \in DOMAIN loader.concepts[i].synonyms :
                SameIgnoringCase(last.text, loader.concepts[i].synonyms[k])
    /\ \E i \in DOMAIN loader.concepts :
          i \notin EqualPositions(loader.concepts, last.text)

\* C8: a list match_concepts returns has at most max_results items, each of
\* confidence at least min_confidence, in order of non-increasing confidence.
C8_MatchesBoundedFilteredSorted ==
    (last.op = "match_concepts" /\ last.exc = "")
        => /\ Len(last.out) <= last.n
           /\ \A k \in DOMAIN last.out : last.out[k].conf >= last.threshold
           /\ \A k \in 1..(Len(last.out) - 1) :
                 last.out[k].conf >= last.out[k + 1].conf

\* How many embedded concepts are at least as similar to the query as the
\* threshold asks.
Candidates ==
    Cardinality({i \in DOMAIN matcher.embeddings :
        CosineSimilarity(Encode(QueryText(last.text, last.context)),
                         matcher.embeddings[i].vec) >= last.threshold})

\* C8 witness: a call with a positive threshold had more candidates than
\* max_results, left one concept below the threshold, and returned
\* max_results items of different confidences.
C8_Witness ==
    /\ last.op = "match_concepts"
    /\ last.exc = ""
    /\ last.threshold > 0
    /\ Candidates > last.n
    /\ Candidates < Len(matcher.embeddings)
    /\ Len(last.out) = last.n
    /\ last.out[1].conf > last.out[Len(last.out)].conf

\* The URIs one parent or child link away from uri.
Adjacent(concepts, uri) ==
    LET c == GetConcept(concepts, uri)
    IN  IF c = <<>> THEN {} ELSE Range(c[1].parents) \cup Range(c[1].children)

\* The URIs at most d links away from uri.
RECURSIVE Within(_, _, _)
Within(concepts, uri, d) ==
    IF d = 0 THEN {uri}
    ELSE LET b == Within(concepts, uri, d - 1)
         IN  b \cup UNION {Adjacent(concepts, v) : v \in b}

\* The graph distance from uri to a URI that can be reached from it.
Distance(concepts, uri, to) ==
    CHOOSE d \in 0..Len(concepts) :
        /\ to \in Within(concepts, uri, d)
        /\ d = 0 \/ to \notin Within(concepts, uri, d - 1)

\* Every link of every loaded concept leads to a loaded concept.
LinksLoaded(concepts) ==
    \A i \in DOMAIN concepts :
        \A u \in Range(concepts[i].parents) \cup Range(concepts[i].children) :
            HasKey(concepts, u)

\* C10 as claimed: from a loaded start in a graph whose links are all loaded,
\* get_concept_neighbors returns for every max_distance a list without the
\* start, in which a neighbor at graph distance d has confidence
\* max(0, 1.0 - 0.2 * d).
C10_NeighborConfidenceClamped ==
    (/\ last.op = "get_concept_neighbors"
     /\ HasKey(loader.concepts, last.uri)
     /\ LinksLoaded(loader.concepts))
        => /\ last.exc = ""
           /\ \A k \in DOMAIN last.out :
                 LET d == Distance(loader.concepts, last.uri, last.out[k].uri)
                     c == ONE - 10 * d
                 IN  /\ last.out[k].uri # last.uri
                     /\ last.out[k].conf = (IF c < 0 THEN 0 ELSE c)

\* C11 as claimed: a call of get_concept_hierarchy visits no concept twice, so
\* it makes at most as many iterations as there are loaded concepts.
C11_HierarchyVisitsEachOnce ==
    /\ \A i, j \in DOMAIN walk.visits : i # j => walk.visits[i] # walk.visits[j]
    /\ Len(walk.visits) <= Len(loader.concepts)

\* A call of suggest_concepts has returned a list.
Suggested == last.op = "suggest_concepts" /\ last.exc = ""

\* The labels of a list of suggestions.
LabelsOf(suggestions) == {suggestions[i].label : i \in DOMAIN suggestions}

\* C12: a list suggest_concepts returns has at most max_suggestions items, in
\* order of non-increasing confidence, each confidence within [0, 1].
C12_SuggestionsBoundedSorted ==
    Suggested
        => /\ Len(last.out) <= last.n
           /\ \A k \in DOMAIN last.out :
                 last.out[k].conf >= 0 /\ last.out[k].conf <= ONE
           /\ \A k \in 1..(Len(last.out) - 1) :
                 last.out[k].conf >= last.out[k + 1].conf

\* C12 witness: a call generated suggestions of more than max_suggestions
\* different labels, a later one more confident than an earlier one, and
\* returned max_suggestions of them with different confidences.
C12_Witness ==
    /\ Suggested
    /\ Cardinality(LabelsOf(last.generated)) > last.n
    /\ \E i, j \in DOMAIN last.generated :
          i < j /\ last.generated[i].conf < last.generated[j].conf
    /\ Len(last.out) = last.n
    /\ last.out[1].conf > last.out[Len(last.out)].conf

\* The first suggestion generated with a label.
FirstGenerated(label) ==
    last.generated[CHOOSE i \in DOMAIN last.generated :
        /\ last.generated[i].label = label
        /\ \A j \in 1..(i - 1) : last.generated[j].label # label]

\* C13: the suggestions suggest_concepts returns have pairwise different
\* labels; each is the first suggestion generated with its label, and the
\* label-based suggestions (those without a parent) are generated before the
\* hierarchical ones.
C13_SuggestionsDeduplicated ==
    Suggested
        => /\ \A k, l \in DOMAIN last.out :
                 k # l => last.out[k].label # last.out[l].label
           /\ \A k \in DOMAIN last.out :
                 last.out[k] = FirstGenerated(last.out[k].label)
           /\ \A i, j \in DOMAIN last.generated :
                 (last.generated[i].parent = <<>> /\ last.generated[j].parent # <<>>)
                     => i < j

\* C13 witness: a label-based and a hierarchical suggestion were generated
\* with the same label, and that label was returned.
C13_Witness ==
    /\ Suggested
    /\ \E i, j \in DOMAIN last.generated :
          /\ last.generated[i].label = last.generated[j].label
          /\ last.generated[i].parent = <<>>
          /\ last.generated[j].parent # <<>>
          /\ \E k \in DOMAIN last.out :
                /\ last.out[k].label = last.generated[i].label
                /\ last.out[k].parent = <<>>

\* The four types that can be inferred, in their order.
InferableTypes == <<OperationType, DataType, FormatType, TopicType>>

\* The number of the keywords of the i-th inferable type that occur in the
\* lowercased text.
KeywordCount(i, text) ==
    LET keywords == <<OperationKeywords, DataKeywords, FormatKeywords, TopicKeywords>>[i]
    IN  Cardinality({k \in DOMAIN keywords :
            \E at \in 1..Len(text) :
                /\ at + Len(keywords[k]) - 1 <= Len(text)
                /\ Lower(SubSeq(text, at, at + Len(keywords[k]) - 1)) = keywords[k]})

\* C14: with no type supplied, every suggestion has the type, among Operation,
\* Data, Format and Topic, whose keywords occur most often in the lowercased
\* description, the earliest such type in that order.
C14_InferredTypeIsFirstHighest ==
    (Suggested /\ last.type = <<>>)
        => \A k \in DOMAIN last.out :
              \E i \in DOMAIN InferableTypes :
                 /\ last.out[k].type = InferableTypes[i]
                 /\ \A j \in DOMAIN InferableTypes :
                       KeywordCount(j, last.text) <= KeywordCount(i, last.text)
                 /\ \A j \in 1..(i - 1) :
                       KeywordCount(j, last.text) < KeywordCount(i, last.text)

\* C14 witness: a call with no type returned suggestions of a type that is not
\* the first, that ties with a later type, and that beats a nonzero count.
C14_Witness ==
    /\ Suggested
    /\ last.type = <<>>
    /\ last.out # <<>>
    /\ last.out[1].type = DataType
    /\ KeywordCount(2, last.text) = KeywordCount(4, last.text)
    /\ KeywordCount(1, last.text) > 0

\* Whether sequence s starts with sequence prefix.
StartsWith(s, prefix) ==
    Len(s) >= Len(prefix) /\ SubSeq(s, 1, Len(prefix)) = prefix

FastqFileFormat == <<"F", "A", "S", "T", "Q", " ", "f", "i", "l", "e", " ", "f", "o", "r", "m", "a", "t">>

Mapped == last.op = "map_to_edam_concept" /\ last.exc = ""

\* suggest_new_concept has returned a SuggestionResponse.
Responded == last.op = "suggest_new_concept" /\ last.exc = ""

\* The collection the last tool call loaded: a load_ontology that returns
\* True has read it from the cache files or has written it to them.
LoadedByCall == cache.concepts.data

\* The place of a step among the steps a tool call took, 0 when it is not
\* among them.
PlaceOf(step) ==
    IF \E i \in DOMAIN last.calls : last.calls[i] = step
    THEN CHOOSE i \in DOMAIN last.calls : last.calls[i] = step
    ELSE 0

\* C16 as claimed: a MappingResponse of map_to_edam_concept has at most
\* request.max_results matches.
C16_MappingBoundedByMaxResults ==
    Mapped => Len(last.out) <= last.n

\* C17 as claimed: a response of suggest_concepts_for_description(...,
\* max_suggestions=n) has at most n suggestions.
C17_DirectCallBoundedByMaxSuggestions ==
    (Responded /\ last.caller = "suggest_concepts_for_description")
        => Len(last.out) <= last.n

\* C18: map_to_edam_concept calls find_exact_matches before match_concepts;
\* has_exact_match is True exactly when some loaded concept equals the
\* description up to case by its label or a synonym, and then match_concepts
\* is not called, no embedding is built and the matches are those concepts;
\* otherwise match_concepts is called and has_exact_match is False; and
\* total_matches is the length of matches.
C18_ExactBeforeSemantic ==
    Mapped
        => LET S == EqualPositions(LoadedByCall, last.text)
           IN  /\ PlaceOf("find_exact_matches") > 0
               /\ PlaceOf("match_concepts") > 0
                     => PlaceOf("find_exact_matches") < PlaceOf("match_concepts")
               /\ last.exact <=> S # {}
               /\ last.exact
                     => /\ PlaceOf("match_concepts") = 0
                        /\ last.embedded = 0
                        /\ Len(last.out) = Cardinality(S)
                        /\ \A k \in DOMAIN last.out :
                              last.out[k] = ConceptMatch(LoadedByCall[KthOf(S, k)], ONE)
               /\ ~last.exact
                     => /\ PlaceOf("match_concepts") > 0
                        /\ \A k \in DOMAIN last.out :
                              last.out[k].conf >= last.threshold
               /\ last.total = Len(last.out)

\* C18 witness: with the embedding provider installed, a call over a
\* collection of several concepts has returned exact matches, and not all
\* concepts.
C18_Witness ==
    /\ Mapped
    /\ stInstalled
    /\ last.exact
    /\ last.out # <<>>
    /\ Len(last.out) < Len(LoadedByCall)

C20_EmbeddingsBuiltOnce ==
    [][/\ last'.encoded > 0
            => /\ last'.op = "match_concepts"
               /\ used.matches = 0
               /\ matcher.embeddings = <<>>
               /\ last'.encoded = Len(loader.concepts)
               /\ Len(matcher'.embeddings) = Len(loader.concepts)
       /\ last'.op = "ConceptMatcher" => matcher'.embeddings = <<>>
       /\ last'.op \in {"find_exact_matches", "get_concept_neighbors"}
            => matcher'.embeddings = matcher.embeddings
       /\ (matcher.embeddings # <<>> /\ last'.op # "ConceptMatcher")
            => matcher'.embeddings = matcher.embeddings]_vars

\* C20 witness: a matcher that holds an embedding for each of several
\* concepts has answered a match_concepts call that was not its first and
\* that computed no embedding.
C20_Witness ==
    /\ last.op = "match_concepts"
    /\ last.exc = ""
    /\ used.matches > 1
    /\ last.encoded = 0
    /\ Len(matcher.embeddings) > 1
    /\ Len(matcher.embeddings) = Len(loader.concepts)

\* A load that has read or written the collection once and not yet for the
\* last time is in progress, and a read has just returned.
ReadDuringLoad ==
    /\ loading.active
    /\ last.op \in {"get_concept", "search_concepts", "find_exact_matches"}

\* What the last read returns on a collection.
ReadOn(concepts) ==
    IF last.op = "get_concept" THEN GetConcept(concepts, last.uri)
    ELSE IF last.op = "search_concepts" THEN SearchConcepts(concepts, last.text, 10)
    ELSE FindExactMatches(concepts, last.text)

StepwiseLoadAgrees ==
    [][(loading.active /\ ~loading'.active) => loader'.concepts = loading.after]_vars

\* C22: preprocess_text applied to its own result returns that result, and
\* the result has no upper-case letter, only word characters, hyphens,
\* underscores and single spaces, and no whitespace at either end.
C22_PreprocessIdempotentAndClean ==
    last.op = "preprocess_text"
        => /\ last.n = 2 => last.out = last.text
           /\ \A i \in DOMAIN last.out :
                 /\ last.out[i] \in WordChars \cup {"-", " "}
                 /\ last.out[i] \notin DOMAIN ToLower
                 /\ i > 1 /\ last.out[i] = " " => last.out[i - 1] # " "
           /\ last.out # <<>>
                 => last.out[1] # " " /\ last.out[Len(last.out)] # " "

\* The result of a text with punctuation, a capital and whitespace in it was
\* preprocessed again.
C22_Witness ==
    /\ last.op = "preprocess_text"
    /\ last.n = 2
    /\ Len(last.out) = 3
    /\ last.out # last.input
    /\ "!" \in Range(last.input)
    /\ "B" \in Range(last.input)
    /\ " " \in Range(last.out)

\* C23 as claimed: calculate_weighted_similarity raises for every two lists
\* of different lengths, an empty list included.
C23_MismatchedListsRaise ==
    /\ last.op = "calculate_weighted_similarity"
    /\ Len(last.similarities) # Len(last.weights)
    => last.exc = "ValueError"

\* With both lists non-empty, the call raises exactly when the lengths differ.
NonEmptyMismatchedListsRaise ==
    /\ last.op = "calculate_weighted_similarity"
    /\ last.similarities # <<>>
    /\ last.weights # <<>>
    => (last.exc = "ValueError" <=> Len(last.similarities) # Len(last.weights))

\* The loaded concepts between 1 and d links away from uri.
Ball(concepts, uri, d) ==
    {u \in Within(concepts, uri, d) : u # uri /\ HasKey(concepts, u)}

\* The list is the ball around the start of the call: every concept of it
\* once, with the confidence of its distance, nearer concepts first.
ReturnsTheBall ==
    LET B == Ball(loader.concepts, last.uri, last.n)
    IN  /\ last.exc = ""
        /\ {last.out[k].uri : k \in DOMAIN last.out} = B
        /\ Len(last.out) = Cardinality(B)
        /\ \A k \in DOMAIN last.out :
              last.out[k].conf
                  = NeighborConfidence(Distance(loader.concepts, last.uri, last.out[k].uri))
        /\ \A k \in 1..(Len(last.out) - 1) :
              Distance(loader.concepts, last.uri, last.out[k].uri)
                  <= Distance(loader.concepts, last.uri, last.out[k + 1].uri)

\* C24 as claimed: on a graph whose links all lead to loaded concepts,
\* get_concept_neighbors(uri, max_distance) returns every concept at shortest
\* distance 1..max_distance from uri exactly once, with the confidence of that
\* distance, none farther, in order of non-decreasing distance.
C24_NeighborsAreTheBall ==
    (last.op = "get_concept_neighbors" /\ LinksLoaded(loader.concepts))
        => ReturnsTheBall

\* From a loaded start and for max_distance up to 5, on a graph whose links
\* all lead to loaded concepts, the list is the ball.
NeighborsAreTheBallUpToFive ==
    (/\ last.op = "get_concept_neighbors"
     /\ LinksLoaded(loader.concepts)
     /\ HasKey(loader.concepts, last.uri)
     /\ last.n <= 5)
        => ReturnsTheBall

\* A call on the diamond returned the concept that two paths of length two
\* lead to.
DiamondReached ==
    /\ last.op = "get_concept_neighbors"
    /\ last.uri = Op1
    /\ Len(last.out) = 3
    /\ last.out[3].uri = Data3
    /\ last.out[3].conf = ONE - 20

\* C28 as claimed: get_concept_neighbors raises nothing, whatever the start
\* and the loaded graph; a URI that is not loaded is skipped.
C28_NeighborsNeverRaise ==
    last.op = "get_concept_neighbors" => last.exc = ""

\* get_concept_neighbors raises whenever, below max_distance, it comes to a
\* URI that is not loaded, and raises TypeError in no other case.
NeighborsRaiseOnMissingNode ==
    last.op = "get_concept_neighbors"
        => LET missing == /\ last.n > 0
                          /\ \E u \in Within(loader.concepts, last.uri, last.n - 1) :
                                ~HasKey(loader.concepts, u)
           IN  /\ missing => last.exc # ""
               /\ last.exc = "TypeError" => missing

\* The URIs of the loaded concepts met from uri by going to the first parent
\* again and again, for at most fuel steps.
RECURSIVE FirstParentChain(_, _, _)
FirstParentChain(concepts, uri, fuel) ==
    LET c == GetConcept(concepts, uri)
    IN  IF fuel = 0 \/ c = <<>> THEN <<>>
        ELSE <<uri>> \o (IF c[1].parents = <<>> THEN <<>>
                         ELSE FirstParentChain(concepts, c[1].parents[1], fuel - 1))

\* Going from first parent to first parent never comes back to a concept.
NoFirstParentCycle(concepts) ==
    \A i \in DOMAIN concepts :
        Len(FirstParentChain(concepts, concepts[i].uri, Len(concepts) + 1))
            <= Len(concepts)

\* C25: on a graph without first-parent cycles, get_concept_hierarchy(uri)
\* returns the labels of uri, its first parent, that one's first parent and so
\* on, the label of uri last; the chain ends at a concept without parents or
\* before a parent that is not loaded; the list is empty when uri is not
\* loaded.
C25_HierarchyIsFirstParentChain ==
    (last.op = "get_concept_hierarchy" /\ NoFirstParentCycle(loader.concepts))
        => LET chain == FirstParentChain(loader.concepts, last.uri,
                                         Len(loader.concepts) + 1)
           IN  /\ Len(last.out) = Len(chain)
               /\ \A k \in DOMAIN chain :
                     last.out[Len(chain) + 1 - k]
                         = GetConcept(loader.concepts, chain[k])[1].label
               /\ HasKey(loader.concepts, last.uri) \/ last.out = <<>>

\* A call returned three or more labels, the first different from the last.
C25_Witness ==
    /\ last.op = "get_concept_hierarchy"
    /\ NoFirstParentCycle(loader.concepts)
    /\ Len(last.out) >= 3
    /\ last.out[1] # last.out[Len(last.out)]

\* A call stopped before a first parent that is not loaded.
HierarchyStoppedAtMissingParent ==
    /\ last.op = "get_concept_hierarchy"
    /\ last.out # <<>>
    /\ LET chain == FirstParentChain(loader.concepts, last.uri, Len(loader.concepts) + 1)
           top == GetConcept(loader.concepts, chain[Len(chain)])[1]
       IN  top.parents # <<>> /\ ~HasKey(loader.concepts, top.parents[1])

\* The smaller of two numbers.
Least(a, b) == IF a < b THEN a ELSE b

\* The number of words that the label and the description share, case ignored.
OverlapCount(label, description) ==
    Cardinality({w \in Range(Split(Lower(label))) :
                    \E k \in DOMAIN Split(description) : Lower(Split(description)[k]) = w})

\* The confidence the formula gives in tenths; clear says whether the label
\* earns the factor for containing only alphanumerics and whitespace.
FormulaTenths(label, description, clear) ==
    Least(10, 5 + (IF Len(Split(label)) \in 3..6 THEN 2 ELSE 0)
                + (IF Len(label) > 10 THEN 1 ELSE 0)
                + (IF clear THEN 1 ELSE 0)
                + Least(OverlapCount(label, description), 2))

\* Every character of the label is a letter, a digit or whitespace.
OnlyAlnumAndSpace(label) ==
    \A i \in DOMAIN label : label[i] \in AlnumChars \cup SpaceChars

\* The label-based suggestions the last call of suggest_concepts built.
LabelBased == {i \in DOMAIN last.generated : last.generated[i].parent = <<>>}

\* C26 as claimed: the confidence of a label-based suggestion is, in tenths,
\* min(10, 5 + 2 for 3 to 6 words + 1 for more than 10 characters + 1 for a
\* label of only alphanumerics and whitespace + min(overlapCount, 2)).
C26_LabelConfidenceFormula ==
    last.op = "suggest_concepts"
        => \A i \in LabelBased :
              last.generated[i].conf * 10
                 = ONE * FormulaTenths(last.generated[i].label, last.text,
                                       OnlyAlnumAndSpace(last.generated[i].label))

\* C26, amended: the same formula, the factor for only alphanumerics and
\* whitespace being given to non-empty labels only; the confidence lies in
\* [0.5, 1.0].
C26_LabelConfidenceFormulaNonEmpty ==
    last.op = "suggest_concepts"
        => \A i \in LabelBased :
              /\ last.generated[i].conf * 10
                    = ONE * FormulaTenths(last.generated[i].label, last.text,
                                          /\ last.generated[i].label # <<>>
                                          /\ OnlyAlnumAndSpace(last.generated[i].label))
              /\ last.generated[i].conf * 2 >= ONE
              /\ last.generated[i].conf <= ONE

\* A call built two label-based suggestions of different confidences, the
\* lower one for a label with a hyphen, the higher one for a label of three
\* to six words.
C26_Witness ==
    /\ last.op = "suggest_concepts"
    /\ \E i, j \in LabelBased :
          /\ last.generated[i].conf < last.generated[j].conf
          /\ "-" \in Range(last.generated[i].label)
          /\ Len(Split(last.generated[j].label)) \in 3..6

\* A call built a label-based suggestion with the empty label.
EmptyLabelSuggested ==
    /\ last.op = "suggest_concepts"
    /\ \E i \in LabelBased : last.generated[i].label = <<>>

\* Every concept of the list is one the matcher held an embedding for and
\* one of the loaded collection.
ReturnsEmbeddedAndLoaded(m, concepts, out) ==
    \A k \in DOMAIN out :
        HasKey(m.embeddings, out[k].uri) /\ HasKey(concepts, out[k].uri)

RemovedConceptSkipped ==
    /\ last.op = "match_concepts"
    /\ last.exc = ""
    /\ last.out # <<>>
    /\ Len(last.out) < last.n
    /\ \E i \in DOMAIN matcher.embeddings :
          ~HasKey(loader.concepts, matcher.embeddings[i].uri)

\* A matcher that had run _build_embeddings on an empty collection returned
\* concepts after a load.
BuiltOnEmptySeesLoad ==
    /\ last.op = "match_concepts"
    /\ last.encoded > 0
    /\ used.matches > 1

\* What the last call of suggest_concepts returns when list(set(...)) gives
\* the label variations and the candidate parents in the given orders.
SuggestedWith(variations, found) ==
    SuggestConcepts(matcher, loader.concepts, last.text, last.type, last.parent,
                    last.n, stInstalled, variations, found).out

\* C29 as claimed: what suggest_concepts(description, concept_type,
\* parent_concept, max_suggestions) returns on a graph is fixed by its
\* arguments, the graph and the semantic matches; the order in which a set
\* of strings is iterated has no part in it.
C29_SuggestionsDeterministic ==
    (last.op = "suggest_concepts" /\ last.exc = "")
        => \A variations \in Orderings(LabelVariations(PreprocessText(last.text))),
              found \in Orderings(PotentialParents(
                           loader.concepts,
                           ParentMatches(matcher, loader.concepts, last.text,
                                         stInstalled))) :
              SuggestedWith(variations, found) = last.out

\* With max_suggestions at least the number of label variations and of
\* candidate parents, the hint included, the same suggestions are returned
\* whatever the orders, up to the order of suggestions of equal confidence.
SameSuggestionsWhenNothingIsCut ==
    (/\ last.op = "suggest_concepts"
     /\ last.exc = ""
     /\ Len(last.generated) <= last.n
     /\ Cardinality(LabelVariations(PreprocessText(last.text))) <= last.n
     /\ Cardinality(PotentialParents(loader.concepts,
                        ParentMatches(matcher, loader.concepts, last.text, stInstalled)))
           + (IF Truthy(last.parent) THEN 1 ELSE 0) <= last.n)
        => \A variations \in Orderings(LabelVariations(PreprocessText(last.text))),
              found \in Orderings(PotentialParents(
                           loader.concepts,
                           ParentMatches(matcher, loader.concepts, last.text,
                                         stInstalled))) :
              {[label |-> SuggestedWith(variations, found)[k].label,
                conf |-> SuggestedWith(variations, found)[k].conf] :
                  k \in DOMAIN SuggestedWith(variations, found)}
                = {[label |-> last.out[k].label, conf |-> last.out[k].conf] :
                      k \in DOMAIN last.out}

\* C30 as claimed: after a call of suggest_concepts with a parent hint and
\* max_suggestions >= 1, the deduplicated list of the suggestions built has
\* a suggestion whose parent_concept is the hint, loaded or not.
C30_HintKeptAfterDeduplication ==
    (/\ last.op = "suggest_concepts"
     /\ last.exc = ""
     /\ Truthy(last.parent)
     /\ last.n >= 1)
        => \E s \in Range(Deduplicate(last.generated, {}, <<>>)) :
              s.parent = <<last.parent[1]>>

\* A suggestion whose parent_concept is the hint is always built.
HintSuggestionBuilt ==
    (/\ last.op = "suggest_concepts"
     /\ last.exc = ""
     /\ Truthy(last.parent)
     /\ last.n >= 1)
        => \E s \in Range(last.generated) : s.parent = <<last.parent[1]>>

\* When the hint names a loaded concept, its suggestion is in the
\* deduplicated list.
LoadedHintKept ==
    (/\ last.op = "suggest_concepts"
     /\ last.exc = ""
     /\ Truthy(last.parent)
     /\ HasKey(loader.concepts, last.parent[1])
     /\ last.n >= 1)
        => \E s \in Range(Deduplicate(last.generated, {}, <<>>)) :
              s.parent = <<last.parent[1]>>

====
